---- MODULE Spec2Model ----
(***************************************************************************)
(* The PVC detection engine of the Polar H10 ECG app: ImprovedPVCDetector  *)
(* (src/src/utils/PVCDetector.ts), the result shapes of MorphologyTrainer  *)
(* and BurdenCalculator (src/unnamed/part_000), the host's ECG data        *)
(* callback (src/src/context/ECGContext.tsx) with its beat ledger and      *)
(* burden history, and the transport manager PolarH10Manager               *)
(* (src/src/services/BluetoothManager.ts).                                 *)
(*                                                                         *)
(* Abstractions.  The waveform is not modelled sample by sample: whether a *)
(* delivered sample completes an R-peak candidate, and that candidate's    *)
(* amplitude, QRS width and correlation with the stored templates, are the *)
(* inputs of processECGSample.  Times are milliseconds.  Fractions         *)
(* (confidence, morphology score, correlation) are percentages: 0.9 is 90. *)
(* A template is named by an integer: 1..6 for the templates training      *)
(* returns, the beat's timestamp for a template stored while detecting.    *)
(* An RR-history entry is the pair of beat timestamps it was measured      *)
(* between (the code keeps only their difference, RRv).                    *)
(***************************************************************************)
EXTENDS Integers, Sequences, FiniteSets, TLC

----------------------------------------------------------------------------
(* Program constants *)

maxLearningBeats == 40
BufferCap == 390
MinPassSamples == 130
PassEvery == 10
RefractoryMs == 300
KeepMs == 120000
MinBeatsToClassify == 8
MaxTemplates == 12
LiveTemplates == 10
DefaultExpectedRR == 800
TrustKeep == 15
TrustCap == 30
MinHeartRate == 40
MaxHeartRate == 200
\* BeatHistoryManager keeps two hours
LedgerKeepMs == 2 * 60 * 60 * 1000
\* how close to the sample a PVC event must be for the host to flag the beat
HostPvcWindowMs == 500
\* the host's burden tick: its period, and the beats the detector must report
BurdenTickMs == 30000
MinBeatsForBurden == 10
\* TemporalBurdenCalculator: the sliding window, and how long a point is kept
windowSizeMs == 5 * 60 * 1000
BurdenKeepMs == 2 * 60 * 60 * 1000

(* Bounds of the exploration *)

\* R-peak candidates the waveform carries in one stream
MaxCands == 47
\* the first candidate of a stream, counted from 0, that may depart from the
\* base rhythm or the normal beat shape
FirstOdd == 44
\* departures from the plain run: a candidate's odd interval, a candidate's
\* odd shape, a reset() call and a resetCounters() call take one each
MaxOdd == 2

\* the longest burden history handed to calculateBurdenTrend
MaxTrendLen == 12

\* R-peak candidates in a stream whose sample clock jumps, and how many jumps
MaxSkewCands == 15
MaxSkews == 2

\* addBeat calls made on one ledger
MaxAdds == 3

\* beats in a training batch handed to the clustering
BatchSize == 4

\* callbacks of a stream that stalls between its samples
MaxHostCalls == 4

\* sendStartCommand calls and disconnect calls of the transport manager that
\* await their BLE operation at the same time
MaxStarts == 2
MaxCancels == 2

(* Inputs *)

\* Date.now() when the stream's clock reads 0: far above every sample clock
\* value and above KeepMs
Epoch == 1000 * 1000
\* the timestamp step between two delivered samples
SampleDt == 50 + 50
\* the rhythm of the training phase
BaseRR == 10 * SampleDt
\* the RR intervals a candidate may follow the previous candidate by
RRChoices == {600, 700, BaseRR, 1300, 1900}
\* how long samples keep arriving after the stream's last candidate
TrailMs == 3 * SampleDt
\* how far the sample timestamps jump, forward or back, when the transport's
\* clock stalls or its time origin is set anew
JumpMs == KeepMs + 80 * BaseRR

\* beat shapes: amplitude, QRS width (ms), correlation with the templates (%)
NormalKind == [amplitude |-> 400, qrs |-> 77, corr |-> 100]
BeatKinds ==
  { NormalKind,
    [amplitude |-> 900, qrs |-> 77,  corr |-> 95],
    [amplitude |-> 700, qrs |-> 131, corr |-> 95],
    [amplitude |-> 400, qrs |-> 131, corr |-> 85],
    [amplitude |-> 400, qrs |-> 77,  corr |-> 20],
    [amplitude |-> 400, qrs |-> 77,  corr |-> 85],
    [amplitude |-> 400, qrs |-> 100, corr |-> 90] }

\* what the clustering of the training batch found: the clusters' sizes,
\* largest first, and the dominant cluster's average correlation (%)
\* and the variance of the dominant cluster's QRS widths
ClusterOutcomes ==
  { [sizes |-> <<>>,       avgCorrelation |-> 0,  qrsVariance |-> 0],
    [sizes |-> <<40>>,     avgCorrelation |-> 95, qrsVariance |-> 0],
    [sizes |-> <<20, 17>>, avgCorrelation |-> 75, qrsVariance |-> 30] }

----------------------------------------------------------------------------
(* Helpers *)

Min(a, b) == IF a < b THEN a ELSE b
Max(a, b) == IF a > b THEN a ELSE b
Abs(x) == IF x < 0 THEN -x ELSE x

\* Array.prototype.slice(-n)
LastN(s, n) == IF Len(s) <= n THEN s ELSE SubSeq(s, Len(s) - n + 1, Len(s))

RECURSIVE SumSeq(_)
SumSeq(s) == IF s = <<>> THEN 0 ELSE Head(s) + SumSeq(Tail(s))

\* sorted[Math.floor(sorted.length / 2)] of the ascending sort of s (s not empty)
MedianUpper(s) ==
  LET k == Len(s) \div 2
  IN  CHOOSE x \in {s[i] : i \in 1..Len(s)} :
        /\ Cardinality({i \in 1..Len(s) : s[i] < x}) <= k
        /\ Cardinality({i \in 1..Len(s) : s[i] <= x}) > k

\* Math.round(num / den), den > 0: halves round up
RoundDiv(num, den) == (2 * num + den) \div (2 * den)

\* the interval an RR-history entry holds
RRv(e) == e.b - e.a

RRValues(h) == [i \in 1..Len(h) |-> RRv(h[i])]

----------------------------------------------------------------------------
(* MorphologyTrainer.clusterBeatsByMorphology.  A beat of the batch is named *)
(* by an integer; corr is the set of the pairs {a, b} of beats whose         *)
(* correlation is above correlationThreshold (calculateCorrelation is        *)
(* symmetric); a cluster is the sequence of its beats, the seed first.       *)

minClusterSize == 3

\* the beats after position i that join the cluster seeded by batch[i]
similarBeats(batch, corr, i, assigned) ==
  SelectSeq(SubSeq(batch, i + 1, Len(batch)),
            LAMBDA b : b \notin assigned /\ {batch[i], b} \in corr)

RECURSIVE clustersFrom(_, _, _, _, _)

\* the outer loop's step at an unassigned beat: clusterBeats is the new cluster
seedCluster(batch, corr, i, assigned, clusters, clusterBeats) ==
  clustersFrom(batch, corr, i + 1,
               assigned \cup {clusterBeats[k] : k \in 1..Len(clusterBeats)},
               IF Len(clusterBeats) >= minClusterSize
               THEN Append(clusters, clusterBeats) ELSE clusters)

\* the outer loop from position i on
clustersFrom(batch, corr, i, assigned, clusters) ==
  IF i > Len(batch) THEN clusters
  ELSE IF batch[i] \in assigned THEN clustersFrom(batch, corr, i + 1, assigned, clusters)
  ELSE seedCluster(batch, corr, i, assigned, clusters,
                   <<batch[i]>> \o similarBeats(batch, corr, i, assigned))

RECURSIVE sortBySize(_)

\* c put into the list s sorted by size, largest first, after the clusters
\* that are not smaller than it
insertBySize(c, s) ==
  SelectSeq(s, LAMBDA x : Len(x) >= Len(c)) \o <<c>> \o SelectSeq(s, LAMBDA x : Len(x) < Len(c))

\* Array.prototype.sort((a, b) => b.beats.length - a.beats.length): stable
sortBySize(clusters) ==
  IF clusters = <<>> THEN <<>>
  ELSE insertBySize(clusters[Len(clusters)],
                    sortBySize(SubSeq(clusters, 1, Len(clusters) - 1)))

clusterBeatsByMorphology(batch, corr) ==
  sortBySize(clustersFrom(batch, corr, 1, {}, <<>>))

\* the dominant cluster: <<>> stands for null
findDominantCluster(clusters) == IF clusters = <<>> THEN <<>> ELSE clusters[1]

----------------------------------------------------------------------------
(* MorphologyTrainer.trainFromBeats, from what the clustering found *)

NullResult ==
  [null |-> TRUE, normalTemplates |-> <<>>, clustersFound |-> 0,
   normalClusterSize |-> 0, confidence |-> 0, qualityScore |-> 0]

\* the centroid, then the (at most 5) members closest to it
generateTemplatesFromCluster(size) == [i \in 1..(1 + Min(5, size)) |-> i]

calculateTrainingConfidence(c) ==
  Min(100, (c.sizes[1] * c.avgCorrelation * 120) \div (SumSeq(c.sizes) * 100))

calculateQualityScore(c) ==
  LET sizeScore == Min(100, (c.sizes[1] * 100) \div 20)
      qrsConsistency == Max(0, 100 - c.qrsVariance)
  IN  (sizeScore + c.avgCorrelation + qrsConsistency) \div 3

trainFromBeats(c) ==
  IF c.sizes = <<>>
  THEN [null |-> FALSE, normalTemplates |-> <<>>, clustersFound |-> 0,
        normalClusterSize |-> 0, confidence |-> 0, qualityScore |-> 0]
  ELSE [null |-> FALSE,
        normalTemplates |-> generateTemplatesFromCluster(c.sizes[1]),
        clustersFound |-> Len(c.sizes),
        normalClusterSize |-> c.sizes[1],
        confidence |-> calculateTrainingConfidence(c),
        qualityScore |-> calculateQualityScore(c)]

----------------------------------------------------------------------------
(* BurdenCalculator.  A burden is held in hundredths of a percent, a time    *)
(* span in ms (the code divides it into minutes), a slope as the pair of the *)
(* regression's numerator and denominator.                                   *)

MsPerMinute == 60 * 1000

\* a variant whose time-window steps add up and whose sum is returned as it is
calculateConfidenceSummed(totalBeats, timeSpanMs, heartRate) ==
  (IF timeSpanMs >= 30 * MsPerMinute THEN 40 ELSE 0)
  + (IF timeSpanMs >= 10 * MsPerMinute THEN 30 ELSE 0)
  + (IF timeSpanMs >= 5 * MsPerMinute THEN 20 ELSE 0)
  + (IF timeSpanMs >= MsPerMinute THEN 10 ELSE 0)
  + (IF totalBeats >= 3000 THEN 30
     ELSE IF totalBeats >= 1000 THEN 20
     ELSE IF totalBeats >= 300 THEN 10 ELSE 0)
  + (IF heartRate >= 50 /\ heartRate <= 120 THEN 20
     ELSE IF heartRate > 0 THEN 10 ELSE 0)

calculateConfidence(totalBeats, timeSpanMs, heartRate) ==
  LET timeFactor == IF timeSpanMs >= 30 * MsPerMinute THEN 40
                    ELSE IF timeSpanMs >= 10 * MsPerMinute THEN 30
                    ELSE IF timeSpanMs >= 5 * MsPerMinute THEN 20
                    ELSE IF timeSpanMs >= MsPerMinute THEN 10
                    ELSE 0
      beatFactor == IF totalBeats >= 3000 THEN 30
                    ELSE IF totalBeats >= 1000 THEN 20
                    ELSE IF totalBeats >= 300 THEN 10
                    ELSE 0
      rateFactor == IF heartRate >= 50 /\ heartRate <= 120 THEN 20
                    ELSE IF heartRate > 0 THEN 10
                    ELSE 0
      \* totalBeats / (heartRate * minutes) within [0.8, 1.2]
      qualityFactor == IF /\ heartRate > 0 /\ timeSpanMs > 0
                          /\ totalBeats * 75000 >= heartRate * timeSpanMs
                          /\ totalBeats * 50000 <= heartRate * timeSpanMs
                       THEN 10 ELSE 0
  IN  Min(100, timeFactor + beatFactor + rateFactor + qualityFactor)

\* a variant whose categories include their upper boundary
categorizeBurdenInclusive(pvcCount, totalBeats) ==
  IF totalBeats <= 0 \/ pvcCount * 100 <= totalBeats THEN "low"
  ELSE IF pvcCount * 100 <= 10 * totalBeats THEN "moderate"
  ELSE "high"

\* on the burden before rounding: pvcCount / totalBeats * 100
categorizeBurden(pvcCount, totalBeats) ==
  IF totalBeats <= 0 \/ pvcCount * 100 < totalBeats THEN "low"
  ELSE IF pvcCount * 100 < 10 * totalBeats THEN "moderate"
  ELSE "high"

calculateBurden(detectedBeats, pvcCount, timeSpanMs, heartRate) ==
  [totalBeats |-> detectedBeats,
   normalBeats |-> Max(0, detectedBeats - pvcCount),
   pvcBeats |-> pvcCount,
   burden |-> IF detectedBeats > 0 THEN RoundDiv(pvcCount * 10000, detectedBeats) ELSE 0,
   burdenCategory |-> categorizeBurden(pvcCount, detectedBeats),
   confidence |-> calculateConfidence(detectedBeats, timeSpanMs, heartRate),
   timeWindow |-> timeSpanMs,
   averageHeartRate |-> heartRate]

\* burdenHistory: the burdens of the measurements, oldest first
calculateBurdenTrend(burdenHistory) ==
  IF Len(burdenHistory) < 3
  THEN [trend |-> "stable", trendValue |-> <<0, 1>>, confidence |-> 0]
  ELSE
  LET recentHistory == LastN(burdenHistory, 10)
      n == Len(recentHistory)
      sumX == SumSeq([i \in 1..n |-> i - 1])
      sumY == SumSeq(recentHistory)
      sumXY == SumSeq([i \in 1..n |-> (i - 1) * recentHistory[i]])
      sumXX == SumSeq([i \in 1..n |-> (i - 1) * (i - 1)])
      num == n * sumXY - sumX * sumY
      den == n * sumXX - sumX * sumX
  IN  [trend |-> IF Abs(num) < 10 * den THEN "stable"
                 ELSE IF num > 0 THEN "increasing" ELSE "decreasing",
       trendValue |-> <<num, den>>,
       confidence |-> Min(100, (100 * n) \div 10)]

----------------------------------------------------------------------------
(* ImprovedPVCDetector: d is the detector object *)

\* ecgBuffer and timeBuffer are windows over the samples in arrival order:
\* ecgLen and timeLen are their lengths, ecgFrom and timeFrom how many samples
\* arrived before the oldest one they hold, lastTime the newest timestamp
NewDetector(now) ==
  [ecgLen |-> 0, ecgFrom |-> 0, timeLen |-> 0, timeFrom |-> 0, lastTime |-> 0,
   rPeaks |-> <<>>, rPeakAmplitudes |-> <<>>, qrsWidths |-> <<>>,
   normalTemplates |-> <<>>, rrHistory |-> <<>>,
   pvcCount |-> 0, pvcEvents |-> <<>>, inferredPvcEvents |-> <<>>,
   startTime |-> now, totalDetectedBeats |-> 0,
   isLearningMode |-> TRUE, learningBeatCount |-> 0, learningBeats |-> <<>>,
   trainingResult |-> NullResult]

SelectEvents(evs, cutoffTime) == SelectSeq(evs, LAMBDA e : e.timestamp >= cutoffTime)

\* pvcEvents.some(pvc => Math.abs(pvc.timestamp - t) < tol)
NearPVC(evs, t, tol) == \E i \in 1..Len(evs) : Abs(evs[i].timestamp - t) < tol

\* a variant that prunes the beat times only
cleanOldDataTimesOnly(d, cutoffTime) ==
  LET valid == {i \in 1..Len(d.rPeaks) : d.rPeaks[i] >= cutoffTime}
      first == IF valid = {} THEN 0 ELSE CHOOSE i \in valid : \A j \in valid : i <= j
      d1 == IF valid # {} /\ first > 1
            THEN [d EXCEPT !.rPeaks = SelectSeq(@, LAMBDA t : t >= cutoffTime)]
            ELSE d
  IN  [d1 EXCEPT !.pvcEvents = SelectEvents(d.pvcEvents, cutoffTime)]

cleanOldData(d, cutoffTime) ==
  LET valid == {i \in 1..Len(d.rPeaks) : d.rPeaks[i] >= cutoffTime}
      first == IF valid = {} THEN 0 ELSE CHOOSE i \in valid : \A j \in valid : i <= j
      keep(s) == SelectSeq([i \in 1..Len(s) |-> <<i, s[i]>>],
                           LAMBDA p : p[1] \in valid)
      pick(s) == [i \in 1..Len(keep(s)) |-> keep(s)[i][2]]
      d1 == IF valid # {} /\ first > 1
            THEN [d EXCEPT !.rPeaks = pick(d.rPeaks),
                           !.rPeakAmplitudes = pick(d.rPeakAmplitudes),
                           !.qrsWidths = pick(d.qrsWidths)]
            ELSE d
  IN  [d1 EXCEPT !.pvcEvents = SelectEvents(d.pvcEvents, cutoffTime)]

updateRRHistoryFromLearning(d) ==
  IF Len(d.rPeaks) < 2 THEN d
  ELSE LET n == Min(Len(d.rPeaks), d.learningBeatCount + 1)
       IN  [d EXCEPT !.rrHistory =
             [i \in 1..(n - 1) |-> [a |-> d.rPeaks[i], b |-> d.rPeaks[i + 1]]]]

finalizeLearning(d, clusters, now) ==
  LET tr == trainFromBeats(clusters)
      d1 == [d EXCEPT !.trainingResult = tr,
                      !.normalTemplates =
                         IF tr.confidence < 50 THEN <<>> ELSE tr.normalTemplates]
      d2 == updateRRHistoryFromLearning(d1)
  IN  [d2 EXCEPT !.isLearningMode = FALSE,
                 !.learningBeats = <<>>,
                 !.startTime = now]

\* a variant that ends the training one beat late
handleLearningModeLate(d, peak, clusters, now) ==
  LET d1 == [d EXCEPT !.learningBeatCount = @ + 1,
                      !.learningBeats = Append(@, [amplitude |-> peak.amplitude,
                                                   qrsWidth |-> peak.qrs])]
  IN  IF d1.learningBeatCount > maxLearningBeats
      THEN finalizeLearning(d1, clusters, now)
      ELSE d1

handleLearningMode(d, peak, clusters, now) ==
  LET d1 == [d EXCEPT !.learningBeatCount = @ + 1,
                      !.learningBeats = Append(@, [amplitude |-> peak.amplitude,
                                                   qrsWidth |-> peak.qrs])]
  IN  IF d1.learningBeatCount >= maxLearningBeats
      THEN finalizeLearning(d1, clusters, now)
      ELSE d1

\* 1 - the best correlation with the last 10 templates; the best correlation
\* starts at 0
calculateSimpleMorphology(d, peak) ==
  LET live == LastN(d.normalTemplates, LiveTemplates)
      maxCorrelation == IF live = <<>> THEN 0 ELSE Max(0, peak.corr)
  IN  Max(0, 100 - maxCorrelation)

\* Math.round((1 - currentRR / expectedRR) * 100)
PercentPremature(currentRR, expectedRR) ==
  RoundDiv(100 * (expectedRR - currentRR), expectedRR)

\* a variant that takes the median over the whole history
expectedRROfAll(d) ==
  LET recentRRs == RRValues(d.rrHistory)
      normalRRs == SelectSeq(recentRRs, LAMBDA rr : rr > 500 /\ rr < 1200)
  IN  IF normalRRs = <<>> THEN DefaultExpectedRR ELSE MedianUpper(normalRRs)

expectedRROf(d) ==
  LET recentRRs == RRValues(LastN(d.rrHistory, 20))
      normalRRs == SelectSeq(recentRRs, LAMBDA rr : rr > 500 /\ rr < 1200)
  IN  IF normalRRs = <<>> THEN DefaultExpectedRR ELSE MedianUpper(normalRRs)

\* a variant that reports the dissimilarity itself
MorphologyOnlyConfidenceRaw(morphologyScore) == morphologyScore

\* Math.min(0.9, morphologyScore)
MorphologyOnlyConfidence(morphologyScore) == Min(90, morphologyScore)

analyzeBeat(d, peak) ==
  IF d.rrHistory = <<>>
  THEN [isPVC |-> FALSE, currentRR |-> 0, expectedRR |-> 0, nextRR |-> 0,
        percentagePremature |-> 0, confidence |-> 0, morphologyScore |-> 0,
        pathway |-> "high-amplitude"]
  ELSE
  LET n == Len(d.rrHistory)
      currentRR == RRv(d.rrHistory[n])
      nextRR == IF n > 1 THEN RRv(d.rrHistory[n - 1]) ELSE currentRR
      expectedRR == expectedRROf(d)
      morphologyScore == calculateSimpleMorphology(d, peak)
      isHighAmplitude == peak.amplitude > 600
      isVeryHighAmplitude == peak.amplitude > 800
      isWide == peak.qrs > 120
      isPremature == 100 * currentRR < 80 * expectedRR
      isVeryPremature == 100 * currentRR < 70 * expectedRR
      isModeratelyPremature == 100 * currentRR < 85 * expectedRR
      hasCompensatoryPause == 100 * nextRR > 125 * expectedRR
      hasAbnormalMorphology == morphologyScore > 12
      hasModerateAbnormalMorphology == morphologyScore > 8
      base == [isPVC |-> FALSE, currentRR |-> currentRR, expectedRR |-> expectedRR,
               nextRR |-> nextRR,
               percentagePremature |-> PercentPremature(currentRR, expectedRR),
               confidence |-> 0, morphologyScore |-> morphologyScore,
               pathway |-> "high-amplitude"]
  IN  IF morphologyScore > 70
      THEN [base EXCEPT !.isPVC = TRUE, !.confidence = MorphologyOnlyConfidence(morphologyScore),
                        !.pathway = "morphology-only"]
      ELSE IF isVeryHighAmplitude \/ (isHighAmplitude /\ isPremature)
      THEN [base EXCEPT !.isPVC = TRUE, !.confidence = 90]
      ELSE IF isWide /\ isPremature
      THEN [base EXCEPT !.isPVC = TRUE, !.confidence = 80, !.pathway = "wide-qrs"]
      ELSE IF isVeryPremature /\ hasAbnormalMorphology
      THEN [base EXCEPT !.isPVC = TRUE, !.confidence = 70,
                        !.pathway = "premature-morph"]
      ELSE IF hasCompensatoryPause /\ isModeratelyPremature
      THEN [base EXCEPT !.isPVC = TRUE,
                        !.confidence = IF hasModerateAbnormalMorphology THEN 75 ELSE 60,
                        !.pathway = "premature-morph"]
      ELSE base

updateRRHistory(d) ==
  IF Len(d.rPeaks) < 2 THEN d
  ELSE
  LET all == [i \in 1..(Len(d.rPeaks) - 1) |->
                [a |-> d.rPeaks[i], b |-> d.rPeaks[i + 1]]]
      newRRs == SelectSeq(all, LAMBDA e :
                  /\ ~NearPVC(d.pvcEvents, e.b, 100)
                  /\ ~NearPVC(d.pvcEvents, e.a, 100)
                  /\ RRv(e) > 400 /\ RRv(e) < 1500)
  IN  IF newRRs # <<>>
      THEN [d EXCEPT !.rrHistory = LastN(LastN(d.rrHistory, TrustKeep) \o newRRs, TrustCap)]
      ELSE d

\* a variant that, when full, keeps the 12 oldest
storeNormalTemplateOldest(d, peak) ==
  [d EXCEPT !.normalTemplates = SubSeq(Append(@, peak.time), 1, Min(Len(@) + 1, MaxTemplates))]

storeNormalTemplate(d, peak) ==
  [d EXCEPT !.normalTemplates = LastN(Append(@, peak.time), MaxTemplates)]

\* rPeaks.push(peak.time) ... qrsWidths.push(qrsWidth)
registerPeak(d, peak) ==
  [d EXCEPT !.rPeaks = Append(@, peak.time),
            !.rPeakAmplitudes = Append(@, peak.amplitude),
            !.totalDetectedBeats = @ + 1,
            !.qrsWidths = Append(@, peak.qrs)]

\* rrHistory.push(currentRR), before the analysis
pushCurrentRR(d) ==
  IF Len(d.rPeaks) >= 2
  THEN [d EXCEPT !.rrHistory =
          Append(@, [a |-> d.rPeaks[Len(d.rPeaks) - 1], b |-> d.rPeaks[Len(d.rPeaks)]])]
  ELSE d

pushPvcEvent(d, analysis, peak) ==
  [d EXCEPT !.pvcCount = @ + 1,
            !.pvcEvents = Append(@,
              [timestamp |-> peak.time,
               currentRR |-> analysis.currentRR,
               expectedRR |-> analysis.expectedRR,
               percentagePremature |-> analysis.percentagePremature,
               qrsWidth |-> peak.qrs,
               confidence |-> analysis.confidence,
               morphologyScore |-> analysis.morphologyScore,
               detectionPathway |-> analysis.pathway,
               amplitude |-> peak.amplitude,
               isInferred |-> FALSE])]

\* the gate a beat found normal passes to become a template
admitsTemplate(d, analysis, peak) ==
  /\ ~analysis.isPVC
  /\ d.rrHistory # <<>>
  /\ analysis.confidence < 10
  /\ ~(RRv(d.rrHistory[Len(d.rrHistory)]) * Len(LastN(d.rrHistory, 10)) * 100
         < 85 * SumSeq(RRValues(LastN(d.rrHistory, 10))))
  /\ peak.amplitude < 500
  /\ peak.qrs < 90

\* processPeak from the PVC test on: d is the detector after updateRRHistory,
\* templates the size of the template set the analysis saw.
\* r.d is the detector; r.log, what the call has reported of each classified
\* beat (recentRRs: the last 10 RR entries as the template gate reads them);
\* r.inferred, the interval the call inferred a PVC in
recordVerdict(r, d, analysis, peak, templates) ==
  [d |-> IF analysis.isPVC THEN pushPvcEvent(d, analysis, peak)
         ELSE IF admitsTemplate(d, analysis, peak) THEN storeNormalTemplate(d, peak)
         ELSE d,
   inferred |-> r.inferred,
   log |-> Append(r.log,
             [time |-> peak.time, amplitude |-> peak.amplitude,
              qrs |-> peak.qrs, templates |-> templates,
              analysis |-> analysis, stored |-> admitsTemplate(d, analysis, peak),
              recentRRs |-> RRValues(LastN(d.rrHistory, 10))])]

\* processPeak from the analysis on: d is the detector after the push of currentRR
classifyPeak(r, d, peak) ==
  recordVerdict(r, updateRRHistory(d), analyzeBeat(d, peak), peak, Len(d.normalTemplates))

\* a variant that classifies the beats of the training phase too
processRegisteredThrough(r, d, peak, clusters, now) ==
  IF Len(d.rPeaks) < MinBeatsToClassify
  THEN [r EXCEPT !.d = IF d.isLearningMode
                       THEN handleLearningMode(d, peak, clusters, now) ELSE d]
  ELSE classifyPeak(r, pushCurrentRR(IF d.isLearningMode
                                      THEN handleLearningMode(d, peak, clusters, now)
                                      ELSE d), peak)

\* a variant that classifies from the 6th retained beat on
processRegisteredEarly(r, d, peak, clusters, now) ==
  IF d.isLearningMode
  THEN [r EXCEPT !.d = handleLearningMode(d, peak, clusters, now)]
  ELSE IF Len(d.rPeaks) < MinBeatsToClassify - 2
  THEN [r EXCEPT !.d = d]
  ELSE classifyPeak(r, pushCurrentRR(d), peak)

\* processPeak after cleanOldData
processRegistered(r, d, peak, clusters, now) ==
  IF d.isLearningMode
  THEN [r EXCEPT !.d = handleLearningMode(d, peak, clusters, now)]
  ELSE IF Len(d.rPeaks) < MinBeatsToClassify
  THEN [r EXCEPT !.d = d]
  ELSE classifyPeak(r, pushCurrentRR(d), peak)

processPeak(r, peak, clusters, now) ==
  processRegistered(r, cleanOldData(registerPeak(r.d, peak), peak.time - KeepMs),
                    peak, clusters, now)

RECURSIVE processPeaks(_, _, _, _)

\* r is the result of processPeak on the first of peaks (the test always
\* holds: it has r evaluated before the next peak is taken)
processRest(r, peaks, clusters, now) ==
  IF r.d.totalDetectedBeats > 0
  THEN processPeaks(r, Tail(peaks), clusters, now)
  ELSE r

processPeaks(r, peaks, clusters, now) ==
  IF peaks = <<>> THEN r
  ELSE processRest(processPeak(r, Head(peaks), clusters, now), peaks, clusters, now)

\* the median the gap pass compares the last interval with; 0 when fewer than
\* 5 of the last 10 history entries are in the normal band
medianNormalRR(d) ==
  LET recentRRs == RRValues(LastN(d.rrHistory, 10))
      normalRRs == SelectSeq(recentRRs, LAMBDA rr : rr > 500 /\ rr < 1200)
  IN  IF Len(normalRRs) < 5 THEN 0 ELSE MedianUpper(normalRRs)

detectGapBasedPVCs(d, now) ==
  IF Len(d.rPeaks) < 6 THEN d
  ELSE IF Len(d.rPeaks) % 5 # 0 THEN d
  ELSE IF medianNormalRR(d) = 0 THEN d
  ELSE
  LET lastIndex == Len(d.rPeaks)
      prevBeatTime == d.rPeaks[lastIndex - 1]
      nextBeatTime == d.rPeaks[lastIndex]
      currentRR == nextBeatTime - prevBeatTime
      isVeryLongGap == 10 * currentRR > 18 * medianNormalRR(d)
      prevBeatIsPVC == NearPVC(d.pvcEvents, prevBeatTime, 200)
      nextBeatIsPVC == NearPVC(d.pvcEvents, nextBeatTime, 200)
      alreadyInferred == \E i \in 1..Len(d.inferredPvcEvents) :
                            /\ d.inferredPvcEvents[i].timestamp > prevBeatTime
                            /\ d.inferredPvcEvents[i].timestamp < nextBeatTime
      inferredPVC == [timestamp |-> prevBeatTime + currentRR \div 2,
                      currentRR |-> currentRR \div 2,
                      expectedRR |-> medianNormalRR(d),
                      percentagePremature |-> 0,
                      qrsWidth |-> 0,
                      confidence |-> 50,
                      morphologyScore |-> 0,
                      detectionPathway |-> "gap-detected",
                      amplitude |-> 0,
                      isInferred |-> TRUE]
      d1 == IF isVeryLongGap /\ ~prevBeatIsPVC /\ ~nextBeatIsPVC /\ ~alreadyInferred
            THEN [d EXCEPT !.inferredPvcEvents = Append(@, inferredPVC),
                           !.pvcCount = @ + 1]
            ELSE d
  IN  [d1 EXCEPT !.inferredPvcEvents = SelectEvents(@, now - KeepMs)]

\* detectBeats after the new peaks: r1 is the result of processing them, d2 the
\* detector after the gap pass
withGapPass(r1, d2) ==
  [r1 EXCEPT !.d = d2,
             !.inferred = IF d2.pvcCount > r1.d.pvcCount
                          THEN <<LastN(d2.rPeaks, 2)>> ELSE <<>>]

afterPeaks(r1, now) ==
  IF Len(r1.d.rPeaks) > 5
  THEN withGapPass(r1, detectGapBasedPVCs(r1.d, now))
  ELSE r1

\* the peaks a pass accepts: lastPeakTime is read once, before any is processed
newPeaksOf(d, pending) ==
  SelectSeq(pending, LAMBDA p :
    p.time - (IF Len(d.rPeaks) > 0 THEN d.rPeaks[Len(d.rPeaks)] ELSE 0) > RefractoryMs)

\* pending: the R-peak candidates in the buffer that no pass has examined yet
detectBeats(d, pending, clusters, now) ==
  afterPeaks(processPeaks([d |-> d, log |-> <<>>, inferred |-> <<>>],
                          newPeaksOf(d, pending), clusters, now),
             now)

\* whether this call runs a detection pass
RunsPass(d) ==
  Min(d.ecgLen + 1, BufferCap) % PassEvery = 0
  /\ Min(d.ecgLen + 1, BufferCap) >= MinPassSamples

\* Array.prototype.slice(-n) of a window of len samples, from of them gone
sliceLast(from, len, n) ==
  [from |-> from + (IF len > n THEN len - n ELSE 0), len |-> Min(len, n)]

\* a variant that trims the sample buffer only
bufferSampleUneven(d, timestamp) ==
  [d EXCEPT !.startTime = IF @ = 0 THEN timestamp ELSE @,
            !.ecgLen = Min(@ + 1, BufferCap),
            !.ecgFrom = sliceLast(@, d.ecgLen + 1, BufferCap).from,
            !.timeLen = @ + 1,
            !.lastTime = timestamp]

\* the pushes onto ecgBuffer and timeBuffer, and the cap
bufferSample(d, timestamp) ==
  [d EXCEPT !.startTime = IF @ = 0 THEN timestamp ELSE @,
            !.ecgLen = IF @ + 1 > BufferCap
                       THEN sliceLast(d.ecgFrom, @ + 1, BufferCap).len ELSE @ + 1,
            !.ecgFrom = IF d.ecgLen + 1 > BufferCap
                        THEN sliceLast(@, d.ecgLen + 1, BufferCap).from ELSE @,
            !.timeLen = IF d.ecgLen + 1 > BufferCap
                        THEN sliceLast(d.timeFrom, @ + 1, BufferCap).len ELSE @ + 1,
            !.timeFrom = IF d.ecgLen + 1 > BufferCap
                         THEN sliceLast(@, d.timeLen + 1, BufferCap).from ELSE @,
            !.lastTime = timestamp]

processECGSample(d, timestamp, pending, clusters, now) ==
  IF RunsPass(d)
  THEN detectBeats(bufferSample(d, timestamp), pending, clusters, now)
  ELSE [d |-> bufferSample(d, timestamp), log |-> <<>>, inferred |-> <<>>]

\* a variant that also forgets the RR history
resetCountersAndHistory(d, now) ==
  [d EXCEPT !.pvcCount = 0,
            !.pvcEvents = <<>>,
            !.inferredPvcEvents = <<>>,
            !.totalDetectedBeats = 0,
            !.rrHistory = <<>>,
            !.startTime = now]

resetCounters(d, now) ==
  [d EXCEPT !.pvcCount = 0,
            !.pvcEvents = <<>>,
            !.inferredPvcEvents = <<>>,
            !.totalDetectedBeats = 0,
            !.startTime = now]

\* a variant that keeps the training result
resetKeepingTraining(d) ==
  [d EXCEPT !.ecgLen = 0, !.ecgFrom = 0, !.timeLen = 0, !.timeFrom = 0,
            !.lastTime = 0,
            !.rPeaks = <<>>, !.rPeakAmplitudes = <<>>, !.qrsWidths = <<>>,
            !.normalTemplates = <<>>, !.rrHistory = <<>>,
            !.pvcCount = 0, !.pvcEvents = <<>>, !.inferredPvcEvents = <<>>,
            !.startTime = 0, !.totalDetectedBeats = 0,
            !.isLearningMode = TRUE, !.learningBeatCount = 0,
            !.learningBeats = <<>>]

reset(d) ==
  [d EXCEPT !.ecgLen = 0, !.ecgFrom = 0, !.timeLen = 0, !.timeFrom = 0,
            !.lastTime = 0,
            !.rPeaks = <<>>, !.rPeakAmplitudes = <<>>, !.qrsWidths = <<>>,
            !.normalTemplates = <<>>, !.rrHistory = <<>>,
            !.pvcCount = 0, !.pvcEvents = <<>>, !.inferredPvcEvents = <<>>,
            !.startTime = 0, !.totalDetectedBeats = 0,
            !.isLearningMode = TRUE, !.learningBeatCount = 0,
            !.learningBeats = <<>>, !.trainingResult = NullResult]

getTrainingStatus(d) ==
  [isLearning |-> d.isLearningMode, progress |-> d.learningBeatCount,
   total |-> maxLearningBeats, trainingResult |-> d.trainingResult]

\* a variant that reports every rate
anyHeartRate(heartRate) == heartRate

\* if (heartRate < 40 || heartRate > 200) heartRate = 0
plausibleHeartRate(heartRate) ==
  IF heartRate < MinHeartRate \/ heartRate > MaxHeartRate THEN 0 ELSE heartRate

\* Math.round(60000 / avgInterval) of the last 5 RR entries; an average of 0
\* gives Infinity and a negative one a negative rate: both are outside the
\* plausible range, and stand here as -1
heartRateOf(recentRRs) ==
  IF SumSeq(recentRRs) <= 0 THEN plausibleHeartRate(-1)
  ELSE plausibleHeartRate(RoundDiv(60000 * Len(recentRRs), SumSeq(recentRRs)))

RECURSIVE sortByTimestamp(_)

\* e put into the sorted list s, after the events that are not later than it
insertByTimestamp(e, s) ==
  LET before == SelectSeq(s, LAMBDA x : x.timestamp <= e.timestamp)
      after == SelectSeq(s, LAMBDA x : x.timestamp > e.timestamp)
  IN  before \o <<e>> \o after

\* Array.prototype.sort((a, b) => a.timestamp - b.timestamp): stable
sortByTimestamp(evs) ==
  IF evs = <<>> THEN <<>>
  ELSE insertByTimestamp(evs[Len(evs)], sortByTimestamp(SubSeq(evs, 1, Len(evs) - 1)))

\* a variant that reports the two event lists one after the other
getResultUnsorted(d) ==
  [pvcCount |-> IF d.isLearningMode THEN 0 ELSE d.pvcCount,
   totalBeats |-> IF d.isLearningMode THEN 0 ELSE d.totalDetectedBeats,
   detectedBeats |-> IF d.isLearningMode THEN 0 ELSE d.totalDetectedBeats,
   heartRate |-> IF d.isLearningMode \/ Len(d.rrHistory) < 3 THEN 0
                 ELSE heartRateOf(RRValues(LastN(d.rrHistory, 5))),
   isPVC |-> FALSE,
   pvcEvents |-> IF d.isLearningMode THEN <<>>
                 ELSE d.pvcEvents \o d.inferredPvcEvents,
   timeSpanMs |-> (IF d.timeLen > 0 THEN d.lastTime ELSE d.startTime) - d.startTime]

\* the snapshot; signalQuality, a function of the waveform, is left out
getResult(d) ==
  [pvcCount |-> IF d.isLearningMode THEN 0 ELSE d.pvcCount,
   totalBeats |-> IF d.isLearningMode THEN 0 ELSE d.totalDetectedBeats,
   detectedBeats |-> IF d.isLearningMode THEN 0 ELSE d.totalDetectedBeats,
   heartRate |-> IF d.isLearningMode \/ Len(d.rrHistory) < 3 THEN 0
                 ELSE heartRateOf(RRValues(LastN(d.rrHistory, 5))),
   isPVC |-> FALSE,
   pvcEvents |-> IF d.isLearningMode THEN <<>>
                 ELSE sortByTimestamp(d.pvcEvents \o d.inferredPvcEvents),
   timeSpanMs |-> (IF d.timeLen > 0 THEN d.lastTime ELSE d.startTime) - d.startTime]

----------------------------------------------------------------------------
(* BeatHistoryManager and the host's ECG data callback (ECGContext.tsx) *)

addBeat(beats, timestamp, isPVC, confidence) ==
  SelectSeq(Append(beats, [timestamp |-> timestamp, isPVC |-> isPVC,
                           confidence |-> confidence]),
            LAMBDA beat : beat.timestamp >= timestamp - LedgerKeepMs)

\* latestPVC && Math.abs(latestPVC.timestamp - timestamp) < 500
latestIsPVC(pvcEvents, timestamp) ==
  /\ pvcEvents # <<>>
  /\ Abs(pvcEvents[Len(pvcEvents)].timestamp - timestamp) < HostPvcWindowMs

\* what the callback does with the ledger after processECGSample has returned
\* result and getTrainingStatus trainingStatus
handleBeatDetection(beats, result, trainingStatus, timestamp) ==
  IF ~trainingStatus.isLearning /\ result.detectedBeats > Len(beats)
  THEN addBeat(beats, timestamp, latestIsPVC(result.pvcEvents, timestamp), 100)
  ELSE beats

\* TemporalBurdenCalculator.calculateSlidingBurden; the point's confidence, a
\* function of the same two counts, is left out
calculateSlidingBurden(allBeats, currentTime) ==
  LET beatsInWindow == SelectSeq(allBeats, LAMBDA beat :
                         beat.timestamp >= currentTime - windowSizeMs
                         /\ beat.timestamp <= currentTime)
      totalBeats == Len(beatsInWindow)
      pvcCount == Len(SelectSeq(beatsInWindow, LAMBDA beat : beat.isPVC))
  IN  [timestamp |-> currentTime,
       burden |-> calculateBurden(totalBeats, pvcCount, windowSizeMs, 0).burden,
       windowSizeMinutes |-> 5,
       totalBeats |-> totalBeats,
       pvcCount |-> pvcCount]

addBurdenPoint(history, dataPoint) ==
  SelectSeq(Append(history, dataPoint),
            LAMBDA point : point.timestamp >= dataPoint.timestamp - BurdenKeepMs)

\* a variant that ticks whenever the detector reports enough beats
handleBurdenTickAlways(h, allBeats, result, trainingStatus, now) ==
  IF /\ ~trainingStatus.isLearning
     /\ result.detectedBeats >= MinBeatsForBurden
     /\ allBeats # <<>>
  THEN [lastBurdenUpdate |-> now,
        burdenHistory |->
          addBurdenPoint(h.burdenHistory,
            [calculateSlidingBurden(allBeats, allBeats[Len(allBeats)].timestamp)
               EXCEPT !.timestamp = now])]
  ELSE h

\* the callback's burden update: h holds lastBurdenUpdateRef and the burden
\* history, allBeats is the ledger after the beat handling, now is Date.now()
handleBurdenTick(h, allBeats, result, trainingStatus, now) ==
  IF /\ ~trainingStatus.isLearning
     /\ now - h.lastBurdenUpdate >= BurdenTickMs
     /\ result.detectedBeats >= MinBeatsForBurden
     /\ allBeats # <<>>
  THEN [lastBurdenUpdate |-> now,
        burdenHistory |->
          addBurdenPoint(h.burdenHistory,
            [calculateSlidingBurden(allBeats, allBeats[Len(allBeats)].timestamp)
               EXCEPT !.timestamp = now])]
  ELSE h

NoHost == [lastBurdenUpdate |-> 0, burdenHistory |-> <<>>]

----------------------------------------------------------------------------
(* PolarH10Manager (BluetoothManager.ts): m is the manager object with its  *)
(* asynchronous calls in flight.  status holds the three flags of the        *)
(* published status (deviceName, batteryLevel and signalQuality are left     *)
(* out); device, controlCharacteristic and ecgCharacteristic tell whether    *)
(* the field is set; link, whether the BLE connection is up; monitoring,     *)
(* whether the control characteristic's monitor is subscribed; connecting,   *)
(* the await connectToDevice is suspended at; starts, the sendStartCommand   *)
(* calls awaiting their write; cancels, the disconnect calls awaiting        *)
(* cancelConnection.                                                         *)

NoBle ==
  [status |-> [isScanning |-> FALSE, isConnected |-> FALSE, isStreaming |-> FALSE],
   device |-> FALSE, link |-> FALSE,
   controlCharacteristic |-> FALSE, ecgCharacteristic |-> FALSE,
   monitoring |-> FALSE, streamReady |-> FALSE,
   connecting |-> "idle", starts |-> 0, cancels |-> 0]

\* this.status = { ...this.status, ...newStatus }, which is then published
updateStatus(m, newStatus) ==
  [m EXCEPT !.status = [k \in DOMAIN @ |-> IF k \in DOMAIN newStatus
                                            THEN newStatus[k] ELSE @[k]]]

\* disconnect after cancelConnection
disconnectEnd(m) ==
  updateStatus([m EXCEPT !.device = FALSE,
                         !.ecgCharacteristic = FALSE,
                         !.controlCharacteristic = FALSE],
               [isConnected |-> FALSE, isStreaming |-> FALSE])

\* disconnect up to its await: device.isConnected is a method of the device
\* object, so the test holds whenever the device field is set
disconnectFlagCleared(m) ==
  IF m.device THEN [m EXCEPT !.cancels = @ + 1] ELSE disconnectEnd(m)

disconnect(m) == disconnectFlagCleared([m EXCEPT !.streamReady = FALSE])

\* cancelConnection has resolved: the connection is down, and with it the
\* monitor's subscription
connectionCancelled(m) ==
  disconnectEnd([m EXCEPT !.link = FALSE, !.monitoring = FALSE, !.cancels = @ - 1])

\* the catch block of connectToDevice: await this.disconnect(); throw error
connectFailed(m) == disconnect([m EXCEPT !.connecting = "idle"])

\* connectToDevice up to its first await
connectToDevice(m) ==
  [updateStatus(m, [isScanning |-> FALSE]) EXCEPT !.connecting = "connect"]

\* connectToDevice and the setupECGStream it calls, from the await that has
\* resolved to the next one
connectResumed(m) ==
  CASE m.connecting = "connect" ->
         [m EXCEPT !.device = TRUE, !.link = TRUE, !.connecting = "discover"]
    [] m.connecting = "discover" -> [m EXCEPT !.connecting = "deviceInfo"]
    [] m.connecting = "deviceInfo" ->
         IF m.device THEN [m EXCEPT !.connecting = "characteristics"]
         ELSE connectFailed(m)
    [] m.connecting = "characteristics" ->
         [m EXCEPT !.controlCharacteristic = TRUE, !.ecgCharacteristic = TRUE,
                   !.monitoring = TRUE, !.connecting = "reqStream"]
    [] m.connecting = "reqStream" -> [m EXCEPT !.connecting = "wait1"]
    [] m.connecting = "wait1" ->
         IF m.controlCharacteristic THEN [m EXCEPT !.connecting = "reqEcg"]
         ELSE connectFailed(m)
    [] m.connecting = "reqEcg" -> [m EXCEPT !.connecting = "wait2"]
    [] m.connecting = "wait2" ->
         IF m.ecgCharacteristic
         THEN [updateStatus(m, [isConnected |-> TRUE]) EXCEPT !.connecting = "idle"]
         ELSE connectFailed(m)

\* the awaits of connectToDevice that are timers
ConnectTimers == {"wait1", "wait2"}

\* sendStartCommand up to its await
sendStartCommand(m) ==
  IF ~m.controlCharacteristic \/ ~m.streamReady THEN m
  ELSE [m EXCEPT !.starts = @ + 1]

\* the control monitor's callback on the stream-ready signal (0xF0, 0x01)
streamReadySignal(m) == sendStartCommand([m EXCEPT !.streamReady = TRUE])

\* sendStartCommand after its write (startTime, the origin of the sample
\* stamps, is set here too)
startCommandWritten(m) ==
  updateStatus([m EXCEPT !.starts = @ - 1], [isStreaming |-> TRUE])

----------------------------------------------------------------------------
(* The state *)

VARIABLES
  det,          \* the ImprovedPVCDetector instance
  clock,        \* ms since the current stream started; Date.now() is Epoch + clock
  absStamps,    \* TRUE: samples are stamped with Date.now(); FALSE: with the ms
                \* since the stream started (BluetoothManager.processECGData)
  pending,      \* R-peak candidates buffered and not yet examined by a pass
  sinceCand,    \* ms since the waveform's last R-peak candidate
  candCount,    \* candidates the waveform has carried in this stream
  oddLeft,      \* what is left of MaxOdd
  obs,          \* what the last call did (history, not program state): op, the
                \* call; log, the beats it classified; learnExits, how often the
                \* detector has left Learning since construction or reset();
                \* admitted, the templates added since then, oldest first;
                \* gapInterval and gapCreated, the interval the gap pass last
                \* inferred a PVC in and how often it has; pass, whether the
                \* call ran a detection pass; registered, the beats it added;
                \* had, the pvcCount a reset call found; delivered, the
                \* samples delivered since construction or reset()
  fn,           \* the last direct application of a function: op, its name;
                \* result, what it returned; confidences, the confidence values
                \* in the result
  beats,        \* the host's BeatHistoryManager.beats
  skew,         \* what the sample timestamps are ahead of the stream's clock by
  host,         \* the host's lastBurdenUpdateRef and the burden history of its
                \* TemporalBurdenCalculator
  ble           \* the PolarH10Manager instance and its calls in flight

vars ==
  <<det, clock, absStamps, pending, sinceCand, candCount, oddLeft, obs, fn, beats, skew,
    host, ble>>

DateNow(c) == Epoch + c
StampAt(c, k) == (IF absStamps THEN DateNow(c) ELSE c) + k
Stamp(c) == StampAt(c, skew)

NoObs ==
  [op |-> "init", log |-> <<>>, learnExits |-> 0, admitted |-> <<>>,
   gapInterval |-> <<>>, gapCreated |-> 0, pass |-> FALSE, registered |-> 0,
   had |-> 0, delivered |-> 0]

NoFn == [op |-> "none", result |-> <<>>, confidences |-> <<>>]

Init ==
  /\ fn = NoFn
  /\ beats = <<>>
  /\ skew = 0
  /\ host = NoHost
  /\ ble = NoBle
  /\ det = NewDetector(DateNow(0))
  /\ clock = 0
  /\ absStamps \in BOOLEAN
  /\ pending = <<>>
  /\ sinceCand = 0
  /\ candCount = 0
  /\ oddLeft = MaxOdd
  /\ obs = NoObs

\* The waveform.  The first maxLearningBeats candidates of a stream keep the
\* base rhythm and the normal shape (the training phase is stationary), and so
\* do the ones before candidate FirstOdd; another candidate that departs from
\* either takes one unit of oddLeft for each.
Cost(rr, kind) == (IF rr = BaseRR THEN 0 ELSE 1) + (IF kind = NormalKind THEN 0 ELSE 1)

MayBeOdd(n) == n >= maxLearningBeats /\ n >= FirstOdd

AllowedRR(n, budget) ==
  IF MayBeOdd(n) /\ budget >= 1 THEN RRChoices ELSE {BaseRR}

\* the candidate the sample delivered now completes: <<>> for none
CandidateChoices ==
  LET s == sinceCand + SampleDt
      kinds == IF MayBeOdd(candCount) THEN BeatKinds ELSE {NormalKind}
      waits == IF candCount < MaxCands
               THEN \E rr \in AllowedRR(candCount, oddLeft) : rr > s
               ELSE s <= TrailMs
  IN  (IF waits THEN {<<>>} ELSE {})
      \cup {<<k>> : k \in {k \in kinds :
                            /\ candCount < MaxCands
                            /\ s \in AllowedRR(candCount, oddLeft)
                            /\ Cost(s, k) <= oddLeft}}

\* the clustering outcomes worth distinguishing: all of them when this call
\* can end the training, one otherwise (it is not read)
ClusterChoices(cands) ==
  IF det.isLearningMode /\ RunsPass(det)
     /\ det.learningBeatCount + Len(pending) + Len(cands) >= maxLearningBeats
  THEN ClusterOutcomes
  ELSE {CHOOSE c \in ClusterOutcomes : c.sizes = <<>>}

ObsAfterSample(r, ranPass) ==
  [op |-> "sample",
   log |-> r.log,
   learnExits |-> obs.learnExits
                  + (IF det.isLearningMode /\ ~r.d.isLearningMode THEN 1 ELSE 0),
   admitted |-> obs.admitted
                \o (IF det.isLearningMode /\ ~r.d.isLearningMode
                    THEN r.d.normalTemplates ELSE <<>>)
                \o [i \in 1..Len(SelectSeq(r.log, LAMBDA e : e.stored)) |->
                      SelectSeq(r.log, LAMBDA e : e.stored)[i].time],
   gapInterval |-> IF r.inferred # <<>> THEN r.inferred[1] ELSE obs.gapInterval,
   gapCreated |-> IF r.inferred = <<>> THEN obs.gapCreated
                  ELSE IF r.inferred[1] = obs.gapInterval THEN obs.gapCreated + 1
                  ELSE 1,
   pass |-> ranPass,
   registered |-> r.d.totalDetectedBeats - det.totalDetectedBeats,
   had |-> 0,
   delivered |-> obs.delivered + 1]

\* the state after the call: r is what processECGSample did, buffered the
\* candidates in the buffer, cands the candidate this sample completed
Deliver(r, buffered, cands) ==
  /\ det' = r.d
  /\ clock' = clock + SampleDt
  /\ pending' = IF RunsPass(det) THEN <<>> ELSE buffered
  /\ sinceCand' = IF cands = <<>> THEN sinceCand + SampleDt ELSE 0
  /\ candCount' = candCount + Len(cands)
  /\ oddLeft' = IF cands = <<>> THEN oddLeft
                ELSE oddLeft - Cost(sinceCand + SampleDt, cands[1])
  /\ obs' = ObsAfterSample(r, RunsPass(det))
  /\ beats' = handleBeatDetection(beats, getResult(r.d), getTrainingStatus(r.d),
                                  Stamp(clock + SampleDt))
  /\ host' = handleBurdenTick(host, beats', getResult(r.d), getTrainingStatus(r.d),
                               DateNow(clock + SampleDt))
  /\ UNCHANGED <<ble, absStamps, fn, skew>>

\* the candidates in the buffer once this sample, stamped t, is in it
BufferedAt(cands, t) ==
  pending \o [i \in 1..Len(cands) |->
                [time |-> t, amplitude |-> cands[i].amplitude,
                 qrs |-> cands[i].qrs, corr |-> cands[i].corr]]

Buffered(cands) == BufferedAt(cands, Stamp(clock + SampleDt))

ProcessECGSample ==
  \E cands \in CandidateChoices :
  \E clusters \in ClusterChoices(cands) :
    Deliver(processECGSample(det, Stamp(clock + SampleDt), Buffered(cands), clusters,
                             DateNow(clock + SampleDt)),
            Buffered(cands), cands)

\* resetCounters(), explored from the last training beat on, after a call
\* that registered a beat
ResetCounters ==
  /\ oddLeft > 0
  /\ obs.op = "sample" /\ obs.registered > 0
  /\ Len(det.rPeaks) >= maxLearningBeats - 1
  /\ det' = resetCounters(det, DateNow(clock))
  /\ oddLeft' = oddLeft - 1
  /\ obs' = [obs EXCEPT !.op = "resetCounters", !.log = <<>>, !.pass = FALSE,
                        !.registered = 0, !.had = det.pvcCount]
  /\ UNCHANGED <<ble, clock, absStamps, pending, sinceCand, candCount, fn, beats, skew, host>>

\* reset(), as the host calls it: on a disconnect (ECGContext.tsx, resetRecording,
\* which also clears the ledger), so that the samples that follow belong to a
\* new stream
Reset ==
  /\ oddLeft > 0
  /\ det' = reset(det)
  /\ oddLeft' = oddLeft - 1
  /\ clock' = 0
  /\ pending' = <<>>
  /\ sinceCand' = 0
  /\ candCount' = 0
  /\ obs' = [NoObs EXCEPT !.op = "reset", !.had = det.pvcCount]
  /\ beats' = <<>>
  /\ host' = NoHost
  /\ UNCHANGED <<ble, absStamps, fn, skew>>

Next == ProcessECGSample \/ ResetCounters \/ Reset

Spec == Init /\ [][Next]_vars

----------------------------------------------------------------------------
(* Streams whose sample timestamps jump.  The transport stamps a sample with  *)
(* the time since its own origin (BluetoothManager.processECGData): the stamps *)
(* jump forward when packets stop arriving for a while, and back when the     *)
(* origin is set anew (sendStartCommand) with the detector left as it is.     *)
(* The stream is regular and shorter than the sample buffer, so every pass    *)
(* examines every candidate delivered since the start, as detectBeats does:   *)
(* with timestamps that never go back the refractory test rejects those an    *)
(* earlier pass has seen, which is why Deliver drops them.                    *)

InitSkew ==
  /\ fn = NoFn
  /\ beats = <<>>
  /\ skew = 0
  /\ host = NoHost
  /\ ble = NoBle
  /\ det = NewDetector(DateNow(0))
  /\ clock = 0
  /\ absStamps \in BOOLEAN
  /\ pending = <<>>
  /\ sinceCand = 0
  /\ candCount = 0
  /\ oddLeft = MaxSkews
  /\ obs = NoObs

\* the candidate the sample delivered now completes
SkewCands == IF sinceCand + SampleDt = BaseRR THEN <<NormalKind>> ELSE <<>>

\* the skew of the sample delivered now: a jump comes with a candidate
SkewChoices ==
  {skew} \cup (IF SkewCands # <<>> /\ oddLeft > 0
               THEN {k \in {skew - JumpMs, skew + JumpMs} : Abs(k) <= JumpMs}
               ELSE {})

DeliverSkewed(r, buffered, k) ==
  /\ det' = r.d
  /\ clock' = clock + SampleDt
  /\ pending' = buffered
  /\ sinceCand' = IF SkewCands = <<>> THEN sinceCand + SampleDt ELSE 0
  /\ candCount' = candCount + Len(SkewCands)
  /\ oddLeft' = IF k = skew THEN oddLeft ELSE oddLeft - 1
  /\ obs' = ObsAfterSample(r, RunsPass(det))
  /\ beats' = handleBeatDetection(beats, getResult(r.d), getTrainingStatus(r.d),
                                  StampAt(clock + SampleDt, k))
  /\ host' = handleBurdenTick(host, beats', getResult(r.d), getTrainingStatus(r.d),
                               DateNow(clock + SampleDt))
  /\ skew' = k
  /\ UNCHANGED <<ble, absStamps, fn>>

ProcessSkewedSample ==
  /\ candCount < MaxSkewCands
  /\ \E k \in SkewChoices :
     \E clusters \in ClusterChoices(SkewCands) :
       DeliverSkewed(processECGSample(det, StampAt(clock + SampleDt, k),
                                      BufferedAt(SkewCands, StampAt(clock + SampleDt, k)),
                                      clusters, DateNow(clock + SampleDt)),
                     BufferedAt(SkewCands, StampAt(clock + SampleDt, k)), k)

NextSkew == ProcessSkewedSample

SpecSkew == InitSkew /\ [][NextSkew]_vars

----------------------------------------------------------------------------
(* The functions applied directly, to inputs drawn from small sets *)

FnBeatCounts == {0, 1, 10, 201, 300, 1000, 3000, 10000}
FnPvcCounts == {0, 1, 2, 5, 9, 10, 99, 100, 300, 999, 1000, 3500, 10000}
FnTimeSpans == {0, MsPerMinute, 5 * MsPerMinute, 10 * MsPerMinute, 30 * MsPerMinute}
FnHeartRates == {0, 40, 100, 130}
\* burden histories: constant, rising and falling by half a percent a step
FnTrendShapes == {0, 50, -50}
FnHistory(n, step) == [i \in 1..n |-> 1000 + step * i]
FnBeatKinds ==
  [amplitude : {400, 700, 900}, qrs : {77, 131}, corr : {-50, 20, 85, 100}]

\* a trained detector whose last three intervals are BaseRR, prevRR, currentRR
FnDetector(count, prevRR, currentRR, templates) ==
  LET times == [i \in 1..count |->
                  IF i = count THEN (count - 3) * BaseRR + prevRR + currentRR
                  ELSE IF i = count - 1 THEN (count - 3) * BaseRR + prevRR
                  ELSE (i - 1) * BaseRR]
  IN  [NewDetector(0) EXCEPT
         !.isLearningMode = FALSE,
         !.learningBeatCount = maxLearningBeats,
         !.rPeaks = times,
         !.rPeakAmplitudes = [i \in 1..count |-> NormalKind.amplitude],
         !.qrsWidths = [i \in 1..count |-> NormalKind.qrs],
         !.totalDetectedBeats = count,
         !.normalTemplates = templates,
         !.rrHistory = [i \in 1..(count - 1) |-> [a |-> times[i], b |-> times[i + 1]]]]

InitFn ==
  /\ fn = NoFn
  /\ beats = <<>>
  /\ skew = 0
  /\ host = NoHost
  /\ ble = NoBle
  /\ det = NewDetector(DateNow(0))
  /\ clock = 0
  /\ absStamps = FALSE
  /\ pending = <<>>
  /\ sinceCand = 0
  /\ candCount = 0
  /\ oddLeft = 0
  /\ obs = NoObs

\* one function is applied in a behaviour; the detector's state is not involved
FnFrame ==
  /\ fn.op = "none"
  /\ UNCHANGED <<ble, det, clock, absStamps, pending, sinceCand, candCount, oddLeft, obs,
                 beats, skew, host>>

ApplyCalculateBurden ==
  /\ FnFrame
  /\ \E detectedBeats \in FnBeatCounts, pvcCount \in FnPvcCounts,
     timeSpanMs \in FnTimeSpans, heartRate \in FnHeartRates :
    LET result == calculateBurden(detectedBeats, pvcCount, timeSpanMs, heartRate)
    IN  fn' = [op |-> "calculateBurden", result |-> result,
               confidences |-> <<result.confidence>>]

ApplyCalculateBurdenTrend ==
  /\ FnFrame
  /\ \E n \in 0..MaxTrendLen, step \in FnTrendShapes :
    LET result == calculateBurdenTrend(FnHistory(n, step))
    IN  fn' = [op |-> "calculateBurdenTrend", result |-> result,
               confidences |-> <<result.confidence>>]

\* the event processPeak builds from the analysis of a PVC beat carries the
\* analysis's confidence
ApplyAnalyzeBeat ==
  /\ FnFrame
  /\ \E kind \in FnBeatKinds, prevRR \in RRChoices, currentRR \in RRChoices,
     templates \in {<<>>, <<1>>} :
    LET d == FnDetector(10, prevRR, currentRR, templates)
        peak == [time |-> d.rPeaks[10], amplitude |-> kind.amplitude,
                 qrs |-> kind.qrs, corr |-> kind.corr]
        result == analyzeBeat(d, peak)
    IN  fn' = [op |-> "analyzeBeat", result |-> result,
               confidences |-> IF result.isPVC THEN <<result.confidence>> ELSE <<>>]

ApplyDetectGapBasedPVCs ==
  /\ FnFrame
  /\ \E prevRR \in RRChoices, currentRR \in RRChoices, count \in {9, 10} :
    LET d == FnDetector(count, prevRR, currentRR, <<1>>)
        result == detectGapBasedPVCs(d, d.rPeaks[count])
    IN  fn' = [op |-> "detectGapBasedPVCs", result |-> result.inferredPvcEvents,
               confidences |-> [i \in 1..Len(result.inferredPvcEvents) |->
                                  result.inferredPvcEvents[i].confidence]]

\* the timestamps addBeat is called with, in any order
FnLedgerTimes == {BaseRR, LedgerKeepMs + BaseRR, LedgerKeepMs + BaseRR + 1, 3 * LedgerKeepMs}

\* addBeat, up to MaxAdds times on the same ledger; fn.result counts the calls
ApplyAddBeat ==
  /\ fn.op = "none" \/ (fn.op = "addBeat" /\ fn.result < MaxAdds)
  /\ \E timestamp \in FnLedgerTimes, isPVC \in BOOLEAN :
       beats' = addBeat(beats, timestamp, isPVC, 100)
  /\ fn' = [op |-> "addBeat", result |-> IF fn.op = "none" THEN 1 ELSE fn.result + 1,
            confidences |-> <<>>]
  /\ UNCHANGED <<ble, det, clock, absStamps, pending, sinceCand, candCount, oddLeft, obs, skew,
                 host>>

\* the RR intervals of a steady rhythm, and how many the history holds
FnRhythms == {250, 300, 301, BaseRR, 1500, 1501, 1600}
FnHistoryLengths == {0, 2, 3, 6}

\* a trained detector whose count + 1 beats are rr apart
FnSteadyDetector(count, rr) ==
  LET times == [i \in 1..(count + 1) |-> i * rr]
  IN  [NewDetector(0) EXCEPT
         !.isLearningMode = FALSE,
         !.learningBeatCount = maxLearningBeats,
         !.trainingResult = trainFromBeats(CHOOSE c \in ClusterOutcomes : c.sizes = <<>>),
         !.ecgLen = MinPassSamples, !.timeLen = MinPassSamples,
         !.lastTime = times[count + 1],
         !.rPeaks = times,
         !.rPeakAmplitudes = [i \in 1..(count + 1) |-> NormalKind.amplitude],
         !.qrsWidths = [i \in 1..(count + 1) |-> NormalKind.qrs],
         !.totalDetectedBeats = count + 1,
         !.rrHistory = [i \in 1..count |-> [a |-> times[i], b |-> times[i + 1]]]]

\* getResult, of a detector in Learning or of a trained one
ApplyGetResult ==
  /\ fn.op = "none"
  /\ \E d \in {NewDetector(DateNow(0))}
              \cup {FnSteadyDetector(count, rr) : count \in FnHistoryLengths, rr \in FnRhythms} :
       /\ det' = d
       /\ fn' = [op |-> "getResult", result |-> getResult(d), confidences |-> <<>>]
  /\ UNCHANGED <<ble, clock, absStamps, pending, sinceCand, candCount, oddLeft, obs, beats, skew,
                 host>>

\* a detector in Learning that has registered count beats, rr apart
FnLearningDetector(count, rr) ==
  [NewDetector(DateNow(0)) EXCEPT
     !.ecgLen = BufferCap, !.timeLen = BufferCap,
     !.lastTime = count * rr,
     !.rPeaks = [i \in 1..count |-> i * rr],
     !.rPeakAmplitudes = [i \in 1..count |-> NormalKind.amplitude],
     !.qrsWidths = [i \in 1..count |-> NormalKind.qrs],
     !.totalDetectedBeats = count,
     !.learningBeatCount = count,
     !.learningBeats = [i \in 1..count |-> [amplitude |-> NormalKind.amplitude,
                                            qrsWidth |-> NormalKind.qrs]]]

\* the detectors a detection pass is applied to: in Learning with 9 beats and
\* one beat before the end of the training, with a plain or a slow rhythm, and
\* trained with few beats retained
FnPassDetectors ==
  {FnLearningDetector(count, rr) : count \in {9, maxLearningBeats - 1}, rr \in {BaseRR, 1600}}
  \cup {[FnSteadyDetector(count, BaseRR) EXCEPT !.ecgLen = BufferCap, !.timeLen = BufferCap] :
          count \in {3, 5, 6, 8, 9}}

\* how far a candidate of the pass is from the beat or candidate before it
FnPassGaps == {200, 301, BaseRR, 1900}
FnPassKinds == {NormalKind, [amplitude |-> 900, qrs |-> 77, corr |-> 95]}

FnCandidate(time, kind) ==
  [time |-> time, amplitude |-> kind.amplitude, qrs |-> kind.qrs, corr |-> kind.corr]

\* the candidates a pass finds in the buffer: one or two, after the beat at last
FnPendings(last) ==
  {<<FnCandidate(last + g1, k1)>> : g1 \in FnPassGaps, k1 \in FnPassKinds}
  \cup {<<FnCandidate(last + g1, k1), FnCandidate(last + g1 + g2, NormalKind)>> :
          g1 \in FnPassGaps, g2 \in FnPassGaps, k1 \in FnPassKinds}

\* what a processECGSample call that runs a pass leaves: fn.result holds the
\* detector it was applied to, the candidates in the buffer, and what the pass
\* reported of the beats it classified
PassApplied(d, candidates, r) ==
  /\ det' = r.d
  /\ fn' = [op |-> "detectBeats",
            result |-> [before |-> d, candidates |-> candidates, log |-> r.log],
            confidences |-> <<>>]

ApplyDetectBeats ==
  /\ fn.op = "none"
  /\ \E d \in FnPassDetectors :
     \E candidates \in FnPendings(d.rPeaks[Len(d.rPeaks)]) :
     \E clusters \in ClusterOutcomes :
       PassApplied(d, candidates,
                   processECGSample(d, candidates[Len(candidates)].time, candidates,
                                    clusters, DateNow(candidates[Len(candidates)].time)))
  /\ UNCHANGED <<ble, clock, absStamps, pending, sinceCand, candCount, oddLeft, obs, beats, skew,
                 host>>

\* RR histories: older intervals of the base rhythm, then newer ones of another
\* rhythm, then the interval of the beat under analysis
FnBandRRs == {400, 500, 501, 700, 1199, 1200, 1300}
FnOlderCounts == {0, 1, 5}
FnNewerCounts == {7, 8, 19}

FnIntervals(older, newer, newerRR, lastRR) ==
  [i \in 1..(older + newer + 1) |->
     IF i <= older THEN BaseRR ELSE IF i <= older + newer THEN newerRR ELSE lastRR]

\* a trained detector whose beats are the intervals rrs apart, all of them in
\* its RR history
FnDetectorOf(rrs) ==
  LET times == [i \in 1..(Len(rrs) + 1) |-> BaseRR + SumSeq(SubSeq(rrs, 1, i - 1))]
  IN  [NewDetector(0) EXCEPT
         !.isLearningMode = FALSE,
         !.learningBeatCount = maxLearningBeats,
         !.rPeaks = times,
         !.rPeakAmplitudes = [i \in 1..(Len(rrs) + 1) |-> NormalKind.amplitude],
         !.qrsWidths = [i \in 1..(Len(rrs) + 1) |-> NormalKind.qrs],
         !.totalDetectedBeats = Len(rrs) + 1,
         !.normalTemplates = <<1>>,
         !.rrHistory = [i \in 1..Len(rrs) |-> [a |-> times[i], b |-> times[i + 1]]]]

\* analyzeBeat as processPeak calls it, the beat's own interval already in the
\* history; fn.result holds the analysis and the history's intervals
HistoryAnalyzed(rrs, result) ==
  fn' = [op |-> "analyzeHistory",
         result |-> [analysis |-> result, rrHistory |-> rrs],
         confidences |-> IF result.isPVC THEN <<result.confidence>> ELSE <<>>]

ApplyAnalyzeHistory ==
  /\ FnFrame
  /\ \E older \in FnOlderCounts, newer \in FnNewerCounts,
        newerRR \in FnBandRRs, lastRR \in FnBandRRs, kind \in FnPassKinds :
       HistoryAnalyzed(FnIntervals(older, newer, newerRR, lastRR),
                       analyzeBeat(FnDetectorOf(FnIntervals(older, newer, newerRR, lastRR)),
                                   FnCandidate(0, kind)))

\* the correlation relations over a batch of BatchSize beats
FnBatchPairs == {{a, b} : a, b \in 1..BatchSize} \ {{a} : a \in 1..BatchSize}

\* the clustering of a batch in any order, under any correlation relation;
\* fn.result holds the batch, the relation, the clusters and the dominant one
ApplyClusterBeats ==
  /\ FnFrame
  /\ \E batch \in Permutations(1..BatchSize), corr \in SUBSET FnBatchPairs :
       fn' = [op |-> "clusterBeatsByMorphology",
              result |-> [batch |-> batch, corr |-> corr,
                          clusters |-> clusterBeatsByMorphology(batch, corr),
                          dominant |-> findDominantCluster(clusterBeatsByMorphology(batch, corr))],
              confidences |-> <<>>]

\* a pass on a detector whose beats can be told apart.  The amplitude and the
\* QRS width of the beat at time t:
AmplitudeOf(t) == t \div 100
QrsOf(t) == 60 + ((t \div 1000) % 50)

\* the beat times the detector holds: a plain run; a run whose stamps jumped
\* forward by more than the 2 minutes kept; one whose stamps jumped back; one
\* whose stamps jumped forward and back again
FnPeakTimes ==
  { [i \in 1..9 |-> i * BaseRR],
    [i \in 1..9 |-> i * BaseRR + (IF i > 5 THEN JumpMs ELSE 0)],
    [i \in 1..9 |-> i * BaseRR + (IF i <= 3 THEN JumpMs ELSE 0)],
    [i \in 1..9 |-> i * BaseRR + (IF i \in {3, 4} THEN JumpMs ELSE 0)] }

\* how far the candidates of the pass are from the beat or candidate before
FnPruneGaps == {301, BaseRR, KeepMs - 4 * BaseRR, KeepMs + BaseRR, JumpMs}

FnTaggedDetector(times, learning) ==
  [NewDetector(DateNow(0)) EXCEPT
     !.isLearningMode = learning,
     !.learningBeatCount = IF learning THEN Len(times) ELSE maxLearningBeats,
     !.learningBeats = IF learning
                       THEN [i \in 1..Len(times) |->
                               [amplitude |-> AmplitudeOf(times[i]),
                                qrsWidth |-> QrsOf(times[i])]]
                       ELSE <<>>,
     !.trainingResult = IF learning THEN NullResult
                        ELSE trainFromBeats(CHOOSE c \in ClusterOutcomes : c.sizes = <<>>),
     !.ecgLen = BufferCap, !.timeLen = BufferCap,
     !.lastTime = times[Len(times)],
     !.rPeaks = times,
     !.rPeakAmplitudes = [i \in 1..Len(times) |-> AmplitudeOf(times[i])],
     !.qrsWidths = [i \in 1..Len(times) |-> QrsOf(times[i])],
     !.totalDetectedBeats = Len(times)]

FnTaggedCandidate(time) ==
  [time |-> time, amplitude |-> AmplitudeOf(time), qrs |-> QrsOf(time), corr |-> 100]

FnTaggedPendings(last) ==
  {<<FnTaggedCandidate(last + g1)>> : g1 \in FnPruneGaps}
  \cup {<<FnTaggedCandidate(last + g1), FnTaggedCandidate(last + g1 + g2)>> :
          g1 \in FnPruneGaps, g2 \in FnPruneGaps}

\* processECGSample with a pass over the candidates; fn.result holds the
\* detector it was applied to and the candidates
ApplyPruningPass ==
  /\ fn.op = "none"
  /\ \E times \in FnPeakTimes, learning \in BOOLEAN :
     \E candidates \in FnTaggedPendings(times[Len(times)]) :
       /\ det' = processECGSample(FnTaggedDetector(times, learning),
                                  candidates[Len(candidates)].time, candidates,
                                  CHOOSE c \in ClusterOutcomes : c.sizes = <<>>,
                                  DateNow(candidates[Len(candidates)].time)).d
       /\ fn' = [op |-> "pruningPass",
                 result |-> [before |-> FnTaggedDetector(times, learning),
                             candidates |-> candidates],
                 confidences |-> <<>>]
  /\ UNCHANGED <<ble, clock, absStamps, pending, sinceCand, candCount, oddLeft, obs, beats,
                 skew, host>>

NextFn ==
  \/ ApplyPruningPass
  \/ ApplyGetResult
  \/ ApplyClusterBeats
  \/ ApplyAnalyzeHistory
  \/ ApplyDetectBeats
  \/ ApplyCalculateBurden
  \/ ApplyCalculateBurdenTrend
  \/ ApplyAnalyzeBeat
  \/ ApplyDetectGapBasedPVCs
  \/ ApplyAddBeat

SpecFn == InitFn /\ [][NextFn]_vars

----------------------------------------------------------------------------
(* The host's callback in a stream that stalls.  The stream is taken up one  *)
(* beat before the end of the training, the host as constructed or as        *)
(* resetRecording leaves it; the sample of the first callback completes the  *)
(* 40th beat, later samples complete none.  Between two callbacks the        *)
(* transport delivers nothing for a while: Date.now() and the sample stamps  *)
(* (the time since the stream started) advance by the same step.  fn counts  *)
(* the callbacks, and the burden updates since the last resetRecording.      *)

\* by how much Date.now() advances between two callbacks
HostSteps == {BurdenTickMs - SampleDt, BurdenTickMs, BurdenKeepMs - BurdenTickMs, BurdenKeepMs}

InitHost ==
  /\ fn = [op |-> "none", result |-> [calls |-> 0, ticks |-> 0], confidences |-> <<>>]
  /\ beats = <<>>
  /\ skew = 0
  /\ host = NoHost
  /\ ble = NoBle
  /\ det = FnLearningDetector(maxLearningBeats - 1, BaseRR)
  /\ clock = (maxLearningBeats - 1) * BaseRR
  /\ absStamps = FALSE
  /\ pending = <<>>
  /\ sinceCand = 0
  /\ candCount = maxLearningBeats - 1
  /\ oddLeft = 0
  /\ obs = NoObs

\* the candidate the sample delivered now completes
HostCands == IF candCount < maxLearningBeats THEN <<NormalKind>> ELSE <<>>

\* the state after a callback whose sample comes step after the last one
DeliverStalled(r, step) ==
  /\ det' = r.d
  /\ clock' = clock + step
  /\ pending' = <<>>
  /\ sinceCand' = IF HostCands = <<>> THEN sinceCand + step ELSE 0
  /\ candCount' = candCount + Len(HostCands)
  /\ obs' = ObsAfterSample(r, RunsPass(det))
  /\ beats' = handleBeatDetection(beats, getResult(r.d), getTrainingStatus(r.d),
                                  Stamp(clock + step))
  /\ host' = handleBurdenTick(host, beats', getResult(r.d), getTrainingStatus(r.d),
                               DateNow(clock + step))
  /\ fn' = [op |-> "callback",
            result |-> [calls |-> fn.result.calls + 1,
                        ticks |-> fn.result.ticks
                                  + (IF host'.lastBurdenUpdate # host.lastBurdenUpdate
                                     THEN 1 ELSE 0)],
            confidences |-> <<>>]
  /\ UNCHANGED <<ble, absStamps, oddLeft, skew>>

HostCallback ==
  /\ fn.result.calls < MaxHostCalls
  /\ \E step \in HostSteps :
     \E clusters \in ClusterChoices(HostCands) :
       DeliverStalled(processECGSample(det, Stamp(clock + step),
                                       BufferedAt(HostCands, Stamp(clock + step)),
                                       clusters, DateNow(clock + step)),
                      step)

\* resetRecording, on a disconnect
HostReset ==
  /\ fn.result.calls < MaxHostCalls
  /\ fn.op = "callback"
  /\ det' = reset(det)
  /\ beats' = <<>>
  /\ host' = NoHost
  /\ pending' = <<>>
  /\ sinceCand' = 0
  /\ obs' = [NoObs EXCEPT !.op = "reset", !.had = det.pvcCount]
  /\ fn' = [op |-> "resetRecording",
            result |-> [calls |-> fn.result.calls + 1, ticks |-> 0],
            confidences |-> <<>>]
  /\ UNCHANGED <<ble, clock, absStamps, candCount, oddLeft, skew>>

NextHost == HostCallback \/ HostReset

SpecHost == InitHost /\ [][NextHost]_vars

----------------------------------------------------------------------------
(* A detector that has been reset() and a newly constructed one, fed the same *)
(* samples: det is the one that was reset, fn.result.fresh the new one.  The  *)
(* stream is regular and starts after both are ready.                         *)

\* the stream clock at which the new detector was constructed: when the other
\* was reset, or in the millisecond the first sample arrives in
TwinBuiltAt == {0, SampleDt}

InitTwin ==
  /\ \E c \in TwinBuiltAt :
       fn = [op |-> "twin", result |-> [fresh |-> NewDetector(DateNow(c))],
             confidences |-> <<>>]
  /\ beats = <<>>
  /\ skew = 0
  /\ host = NoHost
  /\ ble = NoBle
  /\ det = reset(FnLearningDetector(maxLearningBeats - 1, BaseRR))
  /\ clock = 0
  /\ absStamps \in BOOLEAN
  /\ pending = <<>>
  /\ sinceCand = 0
  /\ candCount = 0
  /\ oddLeft = 0
  /\ obs = NoObs

\* the state after the two calls: r is what processECGSample did on det,
\* rFresh what it did on the new detector
TwinDeliver(r, rFresh, buffered, cands) ==
  /\ det' = r.d
  /\ fn' = [fn EXCEPT !.result.fresh = rFresh.d]
  /\ clock' = clock + SampleDt
  /\ pending' = IF RunsPass(det) THEN <<>> ELSE buffered
  /\ sinceCand' = IF cands = <<>> THEN sinceCand + SampleDt ELSE 0
  /\ candCount' = candCount + Len(cands)
  /\ obs' = ObsAfterSample(r, RunsPass(det))
  /\ UNCHANGED <<ble, absStamps, oddLeft, beats, skew, host>>

TwinSample ==
  \E cands \in CandidateChoices :
  \E clusters \in ClusterChoices(cands) :
    TwinDeliver(processECGSample(det, Stamp(clock + SampleDt), Buffered(cands), clusters,
                                 DateNow(clock + SampleDt)),
                processECGSample(fn.result.fresh, Stamp(clock + SampleDt), Buffered(cands),
                                 clusters, DateNow(clock + SampleDt)),
                Buffered(cands), cands)

NextTwin == TwinSample

SpecTwin == InitTwin /\ [][NextTwin]_vars

----------------------------------------------------------------------------
(* The transport manager alone.  Its asynchronous methods run from one await  *)
(* to the next without interruption; between two awaits any other callback   *)
(* may run.  A BLE operation that is awaited resolves only while the         *)
(* connection is up, and may fail at any time.                               *)

InitBle ==
  /\ fn = NoFn
  /\ beats = <<>>
  /\ skew = 0
  /\ host = NoHost
  /\ ble = NoBle
  /\ det = NewDetector(DateNow(0))
  /\ clock = 0
  /\ absStamps = FALSE
  /\ pending = <<>>
  /\ sinceCand = 0
  /\ candCount = 0
  /\ oddLeft = 0
  /\ obs = NoObs

BleFrame ==
  UNCHANGED <<det, clock, absStamps, pending, sinceCand, candCount, oddLeft, obs, fn,
              beats, skew, host>>

\* startScan up to the promise it returns
StartScan ==
  /\ ~ble.status.isScanning
  /\ ble' = updateStatus(ble, [isScanning |-> TRUE])
  /\ BleFrame

\* the scan's timeout or its error callback
ScanEnds ==
  /\ ble.status.isScanning
  /\ ble' = updateStatus(ble, [isScanning |-> FALSE])
  /\ BleFrame

ConnectToDevice ==
  /\ ble.connecting = "idle"
  /\ ble' = connectToDevice(ble)
  /\ BleFrame

\* the operation connectToDevice awaits has resolved
ConnectResumes ==
  /\ ble.connecting # "idle"
  /\ ble.connecting = "connect" \/ ble.connecting \in ConnectTimers \/ ble.link
  /\ ble' = connectResumed(ble)
  /\ BleFrame

\* the BLE operation connectToDevice awaits has been rejected
ConnectFails ==
  /\ ble.connecting # "idle"
  /\ ble.connecting \notin ConnectTimers
  /\ ble.cancels < MaxCancels
  /\ ble' = connectFailed(ble)
  /\ BleFrame

\* the device notifies the control characteristic that the stream is ready
StreamReadySignal ==
  /\ ble.monitoring /\ ble.link
  /\ ble.starts < MaxStarts
  /\ ble' = streamReadySignal(ble)
  /\ BleFrame

\* the write of START_STREAM has resolved
StartCommandWritten ==
  /\ ble.starts > 0
  /\ ble.link
  /\ ble' = startCommandWritten(ble)
  /\ BleFrame

\* the write of START_STREAM has been rejected: the catch block only logs
StartCommandFails ==
  /\ ble.starts > 0
  /\ ble' = [ble EXCEPT !.starts = @ - 1]
  /\ BleFrame

\* disconnect, called by the host
Disconnect ==
  /\ ble.cancels < MaxCancels
  /\ ble' = disconnect(ble)
  /\ BleFrame

\* cancelConnection has resolved
ConnectionCancelled ==
  /\ ble.cancels > 0
  /\ ble' = connectionCancelled(ble)
  /\ BleFrame

\* cancelConnection has been rejected: the catch block only logs
CancelFails ==
  /\ ble.cancels > 0
  /\ ble' = [ble EXCEPT !.cancels = @ - 1]
  /\ BleFrame

\* the connection drops by itself: the manager has no handler for it
LinkLost ==
  /\ ble.link
  /\ ble' = [ble EXCEPT !.link = FALSE, !.monitoring = FALSE]
  /\ BleFrame

NextBle ==
  \/ StartScan
  \/ ScanEnds
  \/ ConnectToDevice
  \/ ConnectResumes
  \/ ConnectFails
  \/ StreamReadySignal
  \/ StartCommandWritten
  \/ StartCommandFails
  \/ Disconnect
  \/ ConnectionCancelled
  \/ CancelFails
  \/ LinkLost

SpecBle == InitBle /\ [][NextBle]_vars

----------------------------------------------------------------------------
(* Properties *)

\* C1: the detector starts in Learning; it leaves Learning only in a
\* processECGSample call, at the beat that brings learningBeatCount to
\* maxLearningBeats, and at most once per life; it is in Learning exactly while
\* learningBeatCount is below maxLearningBeats; only reset() brings it back to
\* Learning; resetCounters() leaves the mode as it is.
C1_LearningLeftOnce ==
  /\ det.isLearningMode
  /\ [][ /\ (det.isLearningMode /\ ~det'.isLearningMode) =>
              /\ obs'.op = "sample"
              /\ det.learningBeatCount < maxLearningBeats
              /\ det'.learningBeatCount = maxLearningBeats
         /\ det'.isLearningMode <=> det'.learningBeatCount < maxLearningBeats
         /\ obs'.learnExits <= 1
         /\ (~det.isLearningMode /\ det'.isLearningMode) => obs'.op = "reset"
         /\ obs'.op = "resetCounters" => det'.isLearningMode = det.isLearningMode
       ]_vars

\* the detector has left Learning, resetCounters() has been called since, and
\* it is still Detecting
C1_Witness ==
  /\ ~det.isLearningMode
  /\ det.learningBeatCount = maxLearningBeats
  /\ obs.learnExits = 1
  /\ obs.op = "resetCounters"

\* C2: after a processECGSample call, no entry of rrHistory has an endpoint
\* beat with a PVC event within 100 ms of its timestamp.
C2_NoIntervalBorderingPVC ==
  obs.op = "sample" =>
    \A i \in 1..Len(det.rrHistory) :
      /\ ~NearPVC(det.pvcEvents, det.rrHistory[i].a, 100)
      /\ ~NearPVC(det.pvcEvents, det.rrHistory[i].b, 100)

\* C3: after a processECGSample call, rrHistory holds at most 30 entries.
C3_HistoryCapped == obs.op = "sample" => Len(det.rrHistory) <= TrustCap

\* C4: once a detection pass has run the gap inference over a most recent
\* interval that is the only one above 1.8 times the trusted median, with no
\* beat classified PVC, there is exactly one inferred event inside that interval
\* and pvcCount is 1 (however many passes have run over it).
C4_OneInferredEventPerGap ==
  LET n == Len(det.rPeaks)
      \* the intervals between consecutive beats above 1.8 times the median
      LongGaps == {i \in 1..(n - 1) :
                     10 * (det.rPeaks[i + 1] - det.rPeaks[i]) > 18 * medianNormalRR(det)}
  IN  ( /\ obs.op = "sample" /\ obs.pass
        /\ n > 5 /\ n % 5 = 0
        /\ medianNormalRR(det) # 0
        /\ LongGaps = {n - 1}
        /\ det.pvcEvents = <<>>
        /\ obs.had = 0 /\ det.totalDetectedBeats = n )
      => /\ det.pvcCount = 1
         /\ Len(SelectSeq(det.inferredPvcEvents,
                          LAMBDA e : e.timestamp > det.rPeaks[n - 1]
                                     /\ e.timestamp < det.rPeaks[n])) = 1

\* C5: when training has ended with confidence below 0.5 the template set is
\* empty as Detecting begins, and a beat classified with no template in the set
\* is not classified PVC by the morphology-only pathway.
C5_NoMorphologyWithoutTemplates ==
  (obs.op = "sample" /\ ~det.trainingResult.null /\ det.trainingResult.confidence < 50) =>
    /\ obs.admitted = <<>>
    /\ \A i \in 1..Len(obs.log) :
         (obs.log[i].templates = 0 /\ obs.log[i].analysis.isPVC)
           => obs.log[i].analysis.pathway # "morphology-only"

\* C6: every beat classified after training gets the verdict of the
\* morphology-only test when its dissimilarity exceeds 0.7, otherwise that of
\* the first rule that holds in the order high-amplitude, wide-QRS, premature
\* with abnormal morphology, compensatory pause, and otherwise is normal with
\* confidence 0.
C6_FirstRuleWins ==
  LET \* <<is PVC, pathway, confidence>> for a beat's analysis a
      Verdict(a, amplitude, qrs) ==
        IF a.morphologyScore > 70
        THEN <<TRUE, "morphology-only", Min(90, a.morphologyScore)>>
        ELSE IF amplitude > 800
                \/ (amplitude > 600 /\ 100 * a.currentRR < 80 * a.expectedRR)
        THEN <<TRUE, "high-amplitude", 90>>
        ELSE IF qrs > 120 /\ 100 * a.currentRR < 80 * a.expectedRR
        THEN <<TRUE, "wide-qrs", 80>>
        ELSE IF 100 * a.currentRR < 70 * a.expectedRR /\ a.morphologyScore > 12
        THEN <<TRUE, "premature-morph", 70>>
        ELSE IF /\ 100 * a.nextRR > 125 * a.expectedRR
                /\ 100 * a.currentRR < 85 * a.expectedRR
        THEN <<TRUE, "premature-morph", IF a.morphologyScore > 8 THEN 75 ELSE 60>>
        ELSE <<FALSE, "", 0>>
  IN  \A i \in 1..Len(obs.log) :
        LET e == obs.log[i]
            v == Verdict(e.analysis, e.amplitude, e.qrs)
        IN  /\ e.analysis.isPVC = v[1]
            /\ e.analysis.confidence = v[3]
            /\ v[1] => e.analysis.pathway = v[2]

\* a beat that only the compensatory-pause rule makes a PVC has been classified
C6_Witness ==
  \E i \in 1..Len(obs.log) :
    /\ obs.log[i].analysis.isPVC
    /\ obs.log[i].analysis.confidence = 60
    /\ obs.log[i].templates > 0

\* C7: right after reset() the buffers, the histories, the templates, the
\* events, the counters, the learning batch and the training result are all
\* cleared, and the detector is in Learning with progress 0.
C7_ResetClearsAll ==
  obs.op = "reset" =>
    /\ det.ecgLen = 0 /\ det.timeLen = 0 /\ det.lastTime = 0
    /\ det.rPeaks = <<>> /\ det.rPeakAmplitudes = <<>> /\ det.qrsWidths = <<>>
    /\ det.rrHistory = <<>> /\ det.normalTemplates = <<>>
    /\ det.pvcEvents = <<>> /\ det.inferredPvcEvents = <<>>
    /\ det.pvcCount = 0 /\ det.totalDetectedBeats = 0
    /\ det.learningBeats = <<>> /\ det.trainingResult = NullResult
    /\ getTrainingStatus(det).isLearning
    /\ getTrainingStatus(det).progress = 0

\* reset() has been called on a detector that had counted PVCs
C7_Witness == obs.op = "reset" /\ obs.had > 0

\* C8: resetCounters() zeroes pvcCount and totalDetectedBeats, empties both
\* event lists and sets the time origin to the present; the mode, the learning
\* progress, the training result, the templates, the RR history, the beat,
\* amplitude and QRS histories and the sample buffer stay as they were.
C8_ResetCountersFrame ==
  [][ obs'.op = "resetCounters" =>
        /\ det'.pvcCount = 0 /\ det'.totalDetectedBeats = 0
        /\ det'.pvcEvents = <<>> /\ det'.inferredPvcEvents = <<>>
        /\ det'.startTime = DateNow(clock')
        /\ det'.isLearningMode = det.isLearningMode
        /\ det'.learningBeatCount = det.learningBeatCount
        /\ det'.learningBeats = det.learningBeats
        /\ det'.trainingResult = det.trainingResult
        /\ det'.normalTemplates = det.normalTemplates
        /\ det'.rrHistory = det.rrHistory
        /\ det'.rPeaks = det.rPeaks
        /\ det'.rPeakAmplitudes = det.rPeakAmplitudes
        /\ det'.qrsWidths = det.qrsWidths
        /\ det'.ecgLen = det.ecgLen /\ det'.ecgFrom = det.ecgFrom
        /\ det'.timeLen = det.timeLen /\ det'.timeFrom = det.timeFrom
        /\ det'.lastTime = det.lastTime
    ]_vars

\* resetCounters() has been called on a trained detector that had counted PVCs
\* and holds templates and an RR history
C8_Witness ==
  /\ obs.op = "resetCounters"
  /\ obs.had > 0
  /\ det.normalTemplates # <<>>
  /\ det.rrHistory # <<>>

\* C10: normalTemplates holds at most 12 templates, and they are the 12 most
\* recently added.
C10_TwelveNewestTemplates ==
  /\ Len(det.normalTemplates) <= MaxTemplates
  /\ det.normalTemplates = LastN(obs.admitted, MaxTemplates)

\* a 13th template has been admitted
C10_Witness == Len(obs.admitted) > MaxTemplates /\ Len(det.normalTemplates) = MaxTemplates

\* C11: after every processECGSample call ecgBuffer and timeBuffer have the same
\* length, at most 390, and both hold the most recent samples in arrival
\* order: the window ends at the sample just delivered, starts at the same
\* sample in both, and nothing inside it is missing.
C11_BuffersHoldNewest390 ==
  obs.op = "sample" =>
    /\ det.ecgLen = det.timeLen
    /\ det.ecgLen <= BufferCap
    /\ det.ecgFrom = det.timeFrom
    /\ det.ecgFrom + det.ecgLen = obs.delivered
    /\ det.ecgLen = Min(obs.delivered, BufferCap)
    /\ det.lastTime = Stamp(clock)

\* a sample has been delivered to full buffers, and the oldest one is gone
C11_Witness ==
  obs.op = "sample" /\ det.ecgLen = BufferCap /\ det.ecgFrom > 1

\* C12: after a processECGSample call that registered a beat, no beat in
\* rPeaks and no event in pvcEvents is more than 120000 ms older than the beat
\* registered last, and qrsWidths holds the widths of the beats in rPeaks.
C12_NothingOlderThanTwoMinutes ==
  (obs.op = "sample" /\ obs.registered > 0) =>
    /\ \A i \in 1..Len(det.rPeaks) :
         det.rPeaks[i] >= det.rPeaks[Len(det.rPeaks)] - KeepMs
    /\ \A i \in 1..Len(det.pvcEvents) :
         det.pvcEvents[i].timestamp >= det.rPeaks[Len(det.rPeaks)] - KeepMs
    /\ Len(det.qrsWidths) = Len(det.rPeaks)

\* C13: after any sequence of addBeat calls, no record in the ledger is more
\* than 2 hours older than the newest record in it.
C13_LedgerSpansTwoHours ==
  \A i, j \in 1..Len(beats) : beats[i].timestamp >= beats[j].timestamp - LedgerKeepMs

\* C14: a processECGSample call on a trained detector adds to the host's
\* ledger exactly as many records as it registered beats (none when it
\* registered none), and flags as PVC at most as many records as it counted
\* PVCs.
C14_OneRecordPerRegisteredBeat ==
  [][ (obs'.op = "sample" /\ ~det.isLearningMode) =>
        /\ Len(beats') - Len(beats) = obs'.registered
        /\ Len(SelectSeq(beats', LAMBDA b : b.isPVC))
              - Len(SelectSeq(beats, LAMBDA b : b.isPVC))
           <= det'.pvcCount - det.pvcCount
    ]_vars

C16_HeartRatePlausibleOrZero ==
  fn.op = "getResult" =>
    /\ fn.result.heartRate = 0
       \/ (fn.result.heartRate \in Int /\ fn.result.heartRate >= MinHeartRate
                                       /\ fn.result.heartRate <= MaxHeartRate)
    /\ (Len(det.rrHistory) < 3 \/ det.isLearningMode) => fn.result.heartRate = 0

\* a snapshot of a trained detector whose last intervals are 1600 ms (37.5
\* beats a minute) reports the heart rate 0
C16_Witness ==
  /\ fn.op = "getResult"
  /\ ~det.isLearningMode /\ Len(det.rrHistory) >= 3
  /\ RRv(det.rrHistory[1]) = 1600
  /\ fn.result.heartRate = 0

\* C17: with sample timestamps that never go back, the timestamps of the
\* registered beats are in increasing order in every state, and the PVC event
\* list of the snapshot a processECGSample call returns, direct and inferred
\* events together, is sorted by timestamp and holds every event of both lists.
C17_BeatsAndEventsInTimeOrder ==
  /\ \A i \in 1..(Len(det.rPeaks) - 1) : det.rPeaks[i] < det.rPeaks[i + 1]
  /\ obs.op = "sample" =>
       LET events == getResult(det).pvcEvents
       IN  /\ \A i \in 1..(Len(events) - 1) : events[i].timestamp <= events[i + 1].timestamp
           /\ ~det.isLearningMode =>
                /\ Len(events) = Len(det.pvcEvents) + Len(det.inferredPvcEvents)
                /\ \A i \in 1..Len(det.pvcEvents) :
                     \E j \in 1..Len(events) : events[j] = det.pvcEvents[i]
                /\ \A i \in 1..Len(det.inferredPvcEvents) :
                     \E j \in 1..Len(events) : events[j] = det.inferredPvcEvents[i]

\* a snapshot holds an inferred event ahead of a direct event that the
\* detector had created before it
C17_Witness ==
  /\ obs.op = "sample"
  /\ ~det.isLearningMode
  /\ det.pvcEvents # <<>> /\ det.inferredPvcEvents # <<>>
  /\ getResult(det).pvcEvents # det.pvcEvents \o det.inferredPvcEvents

\* C18: a beat analysed while the template set is empty has the morphology
\* dissimilarity 0.
C18_NoTemplatesNoDissimilarity ==
  \A i \in 1..Len(obs.log) :
    obs.log[i].templates = 0 => obs.log[i].analysis.morphologyScore = 0

\* C19: a beat is stored as a template only if it was judged normal, its
\* dissimilarity is below 0.1, its RR is not below 0.85 times the average of
\* the last 10 RR entries, its amplitude is below 500 and its QRS width below
\* 90 ms.
C19_TemplateGate ==
  \A i \in 1..Len(obs.log) :
    obs.log[i].stored =>
      /\ ~obs.log[i].analysis.isPVC
      /\ obs.log[i].analysis.morphologyScore < 10
      /\ ~(100 * obs.log[i].analysis.currentRR * Len(obs.log[i].recentRRs)
             < 85 * SumSeq(obs.log[i].recentRRs))
      /\ obs.log[i].amplitude < 500
      /\ obs.log[i].qrs < 90

\* C20: a beat that the compensatory-pause rule classified PVC (confidence 0.6
\* or 0.75) has an RR below 0.85 times the expected RR, and the interval from
\* it to the beat registered next is above 1.25 times the expected RR.
C20_PauseFollowsTheBeat ==
  \A i \in 1..Len(det.pvcEvents) :
    det.pvcEvents[i].confidence \in {60, 75} =>
      /\ 100 * det.pvcEvents[i].currentRR < 85 * det.pvcEvents[i].expectedRR
      /\ \A j \in 1..(Len(det.rPeaks) - 1) :
           det.rPeaks[j] = det.pvcEvents[i].timestamp =>
             100 * (det.rPeaks[j + 1] - det.rPeaks[j]) > 125 * det.pvcEvents[i].expectedRR

\* C9: every confidence a function returns, or puts in an event, lies in
\* [0, 1]: calculateBurden, calculateBurdenTrend, the direct PVC event built
\* from analyzeBeat, the inferred events of detectGapBasedPVCs.
C9_ConfidenceInUnitInterval ==
  \A i \in 1..Len(fn.confidences) :
    fn.confidences[i] >= 0 /\ fn.confidences[i] <= 100

\* calculateBurden has returned the confidence 1
C9_Witness == fn.op = "calculateBurden" /\ fn.confidences = <<100>>

\* C21: after a detection pass that leaves the detector Detecting, every entry
\* of rrHistory is an interval from 400 to 1500 ms.
C21_TrustedIntervalsInRange ==
  (fn.op = "detectBeats" /\ ~det.isLearningMode) =>
    \A i \in 1..Len(det.rrHistory) :
      RRv(det.rrHistory[i]) >= 400 /\ RRv(det.rrHistory[i]) <= 1500

\* C22: after a processECGSample call, any two beats registered one after the
\* other are more than 300 ms apart, also when the pass found two candidates.
C22_RefractoryBetweenBeats ==
  fn.op = "detectBeats" =>
    \A i \in 1..(Len(det.rPeaks) - 1) : det.rPeaks[i + 1] - det.rPeaks[i] > RefractoryMs

\* C23: a processECGSample call runs a detection pass only when the number of
\* samples delivered since construction or reset() is a multiple of 10, so
\* that exactly 10 samples are buffered between two passes, before and after
\* the buffer has filled; from 130 samples on every tenth call runs one.
C23_PassEveryTenSamples ==
  obs.op = "sample" =>
    /\ obs.pass => obs.delivered % PassEvery = 0
    /\ (obs.delivered >= MinPassSamples /\ obs.delivered % PassEvery = 0) => obs.pass

\* C24: the gap inference acts only in a processECGSample call that registered
\* a beat and brought the number of beats to a multiple of 5, at least 6: a
\* call that registered no beat leaves pvcCount and the inferred events as
\* they were, and a call infers at most one PVC.
C24_GapInferenceOncePerFifthBeat ==
  [][ obs'.op = "sample" =>
        /\ obs'.registered = 0 =>
              /\ det'.pvcCount = det.pvcCount
              /\ det'.inferredPvcEvents = det.inferredPvcEvents
        /\ (det'.pvcCount - Len(det'.pvcEvents)) - (det.pvcCount - Len(det.pvcEvents)) <= 1
        /\ (det'.pvcCount - Len(det'.pvcEvents)) > (det.pvcCount - Len(det.pvcEvents)) =>
              /\ Len(det'.rPeaks) >= 6
              /\ Len(det'.rPeaks) % 5 = 0
    ]_vars

\* C25: a processECGSample call on a trained detector that registers beats and
\* leaves fewer than 8 beats in rPeaks classifies none of them: it creates no
\* PVC event, direct or inferred, and leaves pvcCount and rrHistory as they
\* were.
C25_TooFewBeatsToClassify ==
  ( /\ fn.op = "detectBeats"
    /\ ~fn.result.before.isLearningMode
    /\ Len(det.rPeaks) > Len(fn.result.before.rPeaks)
    /\ Len(det.rPeaks) < MinBeatsToClassify )
  => /\ fn.result.log = <<>>
     /\ det.pvcEvents = fn.result.before.pvcEvents
     /\ det.inferredPvcEvents = fn.result.before.inferredPvcEvents
     /\ det.pvcCount = fn.result.before.pvcCount
     /\ det.rrHistory = fn.result.before.rrHistory

\* a trained detector with 6 beats has registered a 7th of very high amplitude,
\* 301 ms after the 6th
C25_Witness ==
  /\ fn.op = "detectBeats"
  /\ ~fn.result.before.isLearningMode
  /\ Len(fn.result.before.rPeaks) = 6 /\ Len(det.rPeaks) = 7
  /\ det.rPeakAmplitudes[7] = 900
  /\ det.rPeaks[7] - det.rPeaks[6] = 301
  /\ det.pvcCount = 0

\* C26: the expected RR of an analysis is 800 ms when none of the last 20 entries
\* of the RR history lies in the band above 500 and below 1200 ms; otherwise it
\* is a median of the entries in the band among those 20 (one of them, with at
\* most half of them below it and at most half above); the expected RR of a
\* beat found PVC, which its event records, lies within 500..1200 ms.
C26_ExpectedRRIsBandMedian ==
  fn.op = "analyzeHistory" =>
    LET last20 == LastN(fn.result.rrHistory, 20)
        inBand == SelectSeq(last20, LAMBDA rr : rr > 500 /\ rr < 1200)
        expectedRR == fn.result.analysis.expectedRR
        below == Len(SelectSeq(inBand, LAMBDA rr : rr < expectedRR))
        above == Len(SelectSeq(inBand, LAMBDA rr : rr > expectedRR))
    IN  /\ inBand = <<>> => expectedRR = DefaultExpectedRR
        /\ inBand # <<>> =>
              /\ \E i \in 1..Len(inBand) : inBand[i] = expectedRR
              /\ 2 * below <= Len(inBand)
              /\ 2 * above <= Len(inBand)
        /\ fn.result.analysis.isPVC => (expectedRR >= 500 /\ expectedRR <= 1200)

\* a beat has been found PVC against the median of the last 20 entries, all
\* of another rhythm than the 5 entries before them
C26_Witness ==
  /\ fn.op = "analyzeHistory"
  /\ Len(fn.result.rrHistory) = 25
  /\ fn.result.rrHistory[1] = BaseRR
  /\ fn.result.rrHistory[6] = 700
  /\ fn.result.analysis.expectedRR = 700
  /\ fn.result.analysis.isPVC

\* C27: every cluster the clustering returns has at least 3 members, no beat
\* is in two clusters, and every two members of a cluster correlate above the
\* threshold.
C27_ClustersMutuallyCorrelated ==
  fn.op = "clusterBeatsByMorphology" =>
    LET clusters == fn.result.clusters
        Members(c) == {c[k] : k \in 1..Len(c)}
    IN  \A i \in 1..Len(clusters) :
          /\ Len(clusters[i]) >= minClusterSize
          /\ Cardinality(Members(clusters[i])) = Len(clusters[i])
          /\ \A j \in 1..Len(clusters) :
                i # j => Members(clusters[i]) \cap Members(clusters[j]) = {}
          /\ \A a, b \in Members(clusters[i]) : a # b => {a, b} \in fn.result.corr

\* C28: under one correlation relation, the batch in any order has the same
\* set of beats in its dominant cluster as the batch in the order 1, 2, ...
C28_DominantClusterOrderFree ==
  fn.op = "clusterBeatsByMorphology" =>
    LET Members(c) == {c[k] : k \in 1..Len(c)}
        inOrder == [i \in 1..BatchSize |-> i]
    IN  Members(fn.result.dominant)
          = Members(findDominantCluster(clusterBeatsByMorphology(inOrder, fn.result.corr)))

\* C29: the host appends a burden point only in a callback after which the
\* ledger holds at least 10 records and the detector has registered at least
\* 10 beats since the training ended.
C29_BurdenNeedsTenClassifiedBeats ==
  [][ (host'.lastBurdenUpdate # host.lastBurdenUpdate /\ host'.burdenHistory # <<>>) =>
        /\ Len(beats') >= MinBeatsForBurden
        /\ Len(det'.rPeaks) - maxLearningBeats >= MinBeatsForBurden
    ]_vars

\* C30: after every step the timestamps of two consecutive points of the
\* burden history are at least 30000 ms apart and no point is more than 2
\* hours older than the newest; a callback appends at most one point, and one
\* that updates the burden appends exactly one, stamped with the present, to
\* what it keeps of the history.
C30_BurdenPointsSpaced ==
  [][ LET old == host.burdenHistory
          new == host'.burdenHistory
          kept == Len(new) - 1
      IN  /\ \A i \in 1..(Len(new) - 1) :
                new[i + 1].timestamp - new[i].timestamp >= BurdenTickMs
          /\ \A i \in 1..Len(new) :
                new[i].timestamp >= new[Len(new)].timestamp - BurdenKeepMs
          /\ fn'.op = "callback" =>
                IF host'.lastBurdenUpdate # host.lastBurdenUpdate
                THEN /\ new # <<>>
                     /\ new[Len(new)].timestamp = DateNow(clock')
                     /\ kept <= Len(old)
                     /\ SubSeq(new, 1, kept) = SubSeq(old, Len(old) - kept + 1, Len(old))
                ELSE new = old
    ]_vars

\* three burden updates have been made since the last reset, and the first
\* point is gone from the history
C30_Witness ==
  /\ fn.op = "callback"
  /\ fn.result.ticks = 3
  /\ Len(host.burdenHistory) = 2

\* C31: in the snapshot of the sample that ends the training timeSpanMs is 0,
\* in every snapshot after training it is not negative, and from one sample
\* to the next it does not decrease, with sample timestamps of either origin.
C31_ElapsedRestartsAtZero ==
  [][ (obs'.op = "sample" /\ ~det'.isLearningMode) =>
        /\ getResult(det').timeSpanMs >= 0
        /\ det.isLearningMode => getResult(det').timeSpanMs = 0
        /\ (obs.op = "sample" /\ ~det.isLearningMode) =>
              getResult(det').timeSpanMs >= getResult(det).timeSpanMs
    ]_vars

\* C32: in the snapshot a processECGSample call returns pvcCount is at most
\* totalBeats, and the burden calculateBurden makes of the snapshot is at most
\* 100%, whatever samples, gap passes and resetCounters() calls came before.
C32_PvcCountWithinTotalBeats ==
  obs.op = "sample" =>
    /\ getResult(det).pvcCount <= getResult(det).totalBeats
    /\ calculateBurden(getResult(det).detectedBeats, getResult(det).pvcCount,
                       getResult(det).timeSpanMs, getResult(det).heartRate).burden
         <= 100 * 100

\* C33: while the detector is in Learning its RR history is empty, it holds no
\* PVC event, direct or inferred, its pvcCount is 0, and its snapshot reports
\* pvcCount 0, totalBeats 0, heartRate 0 and no PVC event; a pass that leaves
\* the detector in Learning classifies no beat.
C33_NothingDetectedWhileLearning ==
  det.isLearningMode =>
    /\ det.rrHistory = <<>>
    /\ det.pvcEvents = <<>>
    /\ det.inferredPvcEvents = <<>>
    /\ det.pvcCount = 0
    /\ getResult(det).pvcCount = 0
    /\ getResult(det).totalBeats = 0
    /\ getResult(det).heartRate = 0
    /\ getResult(det).pvcEvents = <<>>
    /\ fn.op = "detectBeats" => fn.result.log = <<>>

\* a pass on a detector in Learning with 9 beats 1000 ms apart has registered
\* a wide, high beat after a pause of 1900 ms, the 10th, and the detector is
\* still in Learning
C33_Witness ==
  /\ fn.op = "detectBeats"
  /\ det.isLearningMode
  /\ Len(fn.result.before.rPeaks) = 9
  /\ Len(det.rPeaks) = 10
  /\ det.rPeaks[10] - det.rPeaks[9] = 1900
  /\ det.rPeakAmplitudes[10] = 900
  /\ det.learningBeatCount = 10

\* C34: a detector that has been reset() and a newly constructed one, fed the
\* same samples, return the same snapshot and the same training status after
\* every sample.
C34_ResetLikeNew ==
  fn.op = "twin" =>
    /\ getResult(det) = getResult(fn.result.fresh)
    /\ getTrainingStatus(det) = getTrainingStatus(fn.result.fresh)

\* C35: for 0 <= PVCs <= beats the category calculateBurden returns fits the
\* burden it returns, which is rounded to 2 decimals (held here in hundredths
\* of a percent): not low with a burden of 1.00 or more, not moderate with a
\* burden of 10.00 or more.
C35_CategoryFitsRoundedBurden ==
  ( /\ fn.op = "calculateBurden"
    /\ 0 <= fn.result.pvcBeats
    /\ fn.result.pvcBeats <= fn.result.totalBeats )
  => /\ ~(fn.result.burden >= 1 * 100 /\ fn.result.burdenCategory = "low")
     /\ ~(fn.result.burden >= 10 * 100 /\ fn.result.burdenCategory = "moderate")

\* C36: in every status the transport manager publishes, isStreaming is TRUE
\* only if isConnected is TRUE, however connectToDevice, the stream-ready
\* notification, sendStartCommand and disconnect interleave.
C36_StreamingOnlyWhenConnected ==
  ble.status.isStreaming => ble.status.isConnected

\* C37: between processECGSample calls rPeaks, rPeakAmplitudes and qrsWidths
\* have the same length, and entry i of each belongs to the same beat, also
\* after a pass that pruned the beats older than 2 minutes.
C37_BeatListsParallel ==
  /\ Len(det.rPeakAmplitudes) = Len(det.rPeaks)
  /\ Len(det.qrsWidths) = Len(det.rPeaks)
  /\ fn.op = "pruningPass" =>
       \A i \in 1..Len(det.rPeaks) :
         /\ det.rPeakAmplitudes[i] = AmplitudeOf(det.rPeaks[i])
         /\ det.qrsWidths[i] = QrsOf(det.rPeaks[i])

\* a pass has registered two beats and pruned beats that were not all at the
\* front of the lists: of 9 + 2 beats 4 are left
C37_Witness ==
  /\ fn.op = "pruningPass"
  /\ Len(fn.result.candidates) = 2
  /\ fn.result.before.rPeaks[3] > fn.result.before.rPeaks[5]
  /\ fn.result.before.rPeaks[1] < fn.result.before.rPeaks[3]
  /\ Len(det.rPeaks) = 4
  /\ det.rPeaks[1] = fn.result.before.rPeaks[3]

====
